---- MODULE Spec2Model ----
(***************************************************************************)
(* Laundro-Bench simulation core: LaundromatEnv (src/src/engine.py), its   *)
(* degradation / demand / symptom-log models (src/src/mechanics.py), the   *)
(* scorer (src/src/scorer.py) and the driver loop run_simulation           *)
(* (src/main.py).                                                          *)
(*                                                                         *)
(* Fixed-point units used for the program's floats:                        *)
(*   money                 cents            (2000.0  -> 200000)            *)
(*   health                1e-6             (1.0     -> 1000000)           *)
(*   customer_satisfaction 1e-2             (100.0   -> 10000)             *)
(*   multipliers           1e-3             (1.10    -> 1100)              *)
(*   interest_rate         1e-3             (0.001   -> 1)                 *)
(*   a draw of rng.random  1e-4             (0.05    -> 500)               *)
(* Optional values (None / value) are sequences of length 0 / 1.           *)
(***************************************************************************)
EXTENDS Integers, Sequences, FiniteSets, TLC

VARIABLES
  env,       \* the engine (LaundromatEnv) of the run
  obs,       \* the observation the driver holds (None before the first)
  agentObs,  \* the observation last handed to the agent's decision function
  last,      \* what the last call of step did (its locals), for the record
  pc,        \* position of run_simulation: "new", "loop", "error"
  hist,      \* the run so far: the actions fed and the observations returned
  twin,      \* a second engine, constructed independently from the same file
  twinObs,   \* the observation the second run holds
  twinPc,    \* position of the second run
  call,      \* a call of one of the pure functions: its name and arguments
  result,    \* the value that call returned (None before it returns)
  agent,     \* the process-wide Smart agent, baselines._smart_agent_instance
  runs       \* run_baseline's results so far: scenario and NBV (None: ERROR)

vars == <<env, obs, agentObs, last, pc, hist, twin, twinObs, twinPc,
          call, result, agent, runs>>

----------------------------------------------------------------------------
(* Bounds of the exploration *)

\* days simulated by a run
MaxDays == 3

\* days simulated when two runs are compared
MaxTwinDays == 2

\* the day on which the scenario files schedule their events
EventDay == 2

\* days simulated on an engine constructed from an arbitrary file
MaxConstructDays == 1

\* days simulated by a run of an agent that only waits
MaxLongDays == 24
\* days of the run on which the hidden mechanics are applied on their own
MaxMechanicsDay == 3
\* runs of one process, and the days of each
MaxRuns == 3
MaxBaselineDays == 2

\* assets in a state handed to the scorer on its own
MaxScoredMachines == 2

\* largest age_cycles handed to the degradation model on its own
MaxAge == 2600

----------------------------------------------------------------------------
(* src/src/config.py *)

INITIAL_CASH == 200000
INITIAL_DEBT == 0
INITIAL_SOAP == 50
INITIAL_PARTS == 2
COST_WASHER == 80000
COST_DRYER == 60000
COST_SOAP_UNIT == 1000
COST_PART == 15000
PRICE_WASH == 500
PRICE_DRY == 400
FAIR_MARKET_WASH == 500
FAIR_MARKET_DRY == 400
COST_UTILITY_PER_LOAD == 50
RENT_DAILY == 5000
COST_REPAIR_CHEAP == 5000
COST_REPAIR_PREMIUM == 20000
MAX_CYCLES_PER_DAY == 10
\* SOAP_PER_LOAD = 0.1: one unit of soap serves LoadsPerSoap loads
LoadsPerSoap == 10

HealthOne == 1000000
SatMax == 10000
NumMachines == 10
NumWashers == 6
INSPECTION_COST == 1000
CHEAP_REPAIR_BONUS == 300000

----------------------------------------------------------------------------
(* Arithmetic helpers: Python's int() truncates toward zero, min, max *)

Min(a, b) == IF a <= b THEN a ELSE b
Max(a, b) == IF a >= b THEN a ELSE b
Abs(a) == IF a >= 0 THEN a ELSE -a
TruncDiv(a, b) == IF a >= 0 THEN a \div b ELSE -((-a) \div b)
\* round(x, 2) of a value given in units of 1/den cents
RoundDiv(a, den) == IF a >= 0 THEN (2 * a + den) \div (2 * den)
                    ELSE -((2 * (-a) + den) \div (2 * den))

None == <<>>
Some(x) == <<x>>
IsSome(o) == Len(o) > 0
Val(o) == o[1]

----------------------------------------------------------------------------
(* The seeded random stream: np.random.RandomState(seed).  The generator   *)
(* is a deterministic function of its state; it is modelled by a Lehmer    *)
(* generator, each draw advancing the state once.                          *)

RngModulus == 65537
RngMultiplier == 75

\* a generator constructed without the seed starts from any state
SeedStatesUnseeded(seed) == {1, 2}

SeedStates(seed) ==
  {(((seed % (RngModulus - 1)) + 1) * RngMultiplier * RngMultiplier) % RngModulus}

RngNext(s) == (s * RngMultiplier) % RngModulus
\* value of the draw produced from state s, in 1e-4 units of [0,1)
RngUnit(s) == ((s - 1) * 10000) \div (RngModulus - 1)
\* rng.randint(lo, hi): uniform integer in [lo, hi)
RngInt(s, lo, hi) == lo + (RngUnit(s) * (hi - lo)) \div 10000

----------------------------------------------------------------------------
(* Scenario descriptors: src/src/generator.py SCENARIO_DEFINITIONS, with   *)
(* the defaults the engine's config.get(...) calls supply.                 *)

DefaultConfig ==
  [rent_mult |-> 1000, base_demand_mult |-> 1000, lemon_law |-> FALSE,
   degradation_mult |-> 1, repair_cost_mult |-> 1000,
   hyper_inflation |-> FALSE, inflation_interval |-> 7,
   supply_shock |-> FALSE, gentrification_strict |-> FALSE,
   satisfaction_threshold |-> 8000, price_sensitivity |-> 1000,
   slumlord_start |-> FALSE, initial_cash |-> None, initial_debt |-> None,
   interest_rate |-> 1, heatwave |-> FALSE, water_rationing |-> FALSE,
   grifter_repairs |-> FALSE, grift_prob |-> 3000,
   competitor_active |-> FALSE]

ScenarioIds == {"S-01", "S-01-Hard", "S-02", "S-02-Hard", "S-03-Hard", "S-04",
                "S-05-Hard", "S-06", "S-06-Hard", "S-07-Hard", "S-08",
                "S-08-Hard"}

ScenarioSeed(sid) ==
  CASE sid = "S-01" -> 42
    [] sid = "S-01-Hard" -> 420
    [] sid = "S-02" -> 101
    [] sid = "S-02-Hard" -> 1010
    [] sid = "S-03-Hard" -> 2020
    [] sid = "S-04" -> 303
    [] sid = "S-05-Hard" -> 4040
    [] sid = "S-06" -> 505
    [] sid = "S-06-Hard" -> 5050
    [] sid = "S-07-Hard" -> 6060
    [] sid = "S-08" -> 707
    [] sid = "S-08-Hard" -> 7070

ScenarioConfig(sid) ==
  CASE sid = "S-01" -> DefaultConfig
    [] sid = "S-01-Hard" ->
         [DefaultConfig EXCEPT !.rent_mult = 2000, !.base_demand_mult = 800]
    [] sid = "S-02" ->
         [DefaultConfig EXCEPT !.lemon_law = TRUE, !.degradation_mult = 4]
    [] sid = "S-02-Hard" ->
         [DefaultConfig EXCEPT !.lemon_law = TRUE, !.degradation_mult = 8,
                               !.repair_cost_mult = 1500]
    [] sid = "S-03-Hard" ->
         [DefaultConfig EXCEPT !.hyper_inflation = TRUE,
                               !.inflation_interval = 3]
    [] sid = "S-04" -> [DefaultConfig EXCEPT !.supply_shock = TRUE]
    [] sid = "S-05-Hard" ->
         [DefaultConfig EXCEPT !.gentrification_strict = TRUE,
                               !.satisfaction_threshold = 9500,
                               !.price_sensitivity = 2000]
    [] sid = "S-06" ->
         [DefaultConfig EXCEPT !.slumlord_start = TRUE, !.interest_rate = 5]
    [] sid = "S-06-Hard" ->
         [DefaultConfig EXCEPT !.slumlord_start = TRUE,
                               !.initial_debt = Some(5000000),
                               !.initial_cash = Some(0),
                               !.interest_rate = 10]
    [] sid = "S-07-Hard" ->
         [DefaultConfig EXCEPT !.heatwave = TRUE, !.degradation_mult = 4,
                               !.water_rationing = TRUE]
    [] sid = "S-08" -> [DefaultConfig EXCEPT !.grifter_repairs = TRUE]
    [] sid = "S-08-Hard" ->
         [DefaultConfig EXCEPT !.grifter_repairs = TRUE, !.grift_prob = 9000]

\* The event strings generate_scenarios writes for a scenario.  A string is
\* the sequence of its words and punctuation marks, so that the engine's
\* substring tests ("Rent Hike" in e) are tests for a contiguous run.
ScenarioEvents(sid) ==
  CASE sid = "S-01-Hard" ->
         << <<"EVENT", ":", "Landlord", "raised", "rent", "by", "10", "%", ".">> >>
    [] sid = "S-02-Hard" ->
         << <<"EVENT", ":", "FACTORY", "RECALL", "!", "All", "machines",
              "flagged", "for", "defects", ".">> >>
    [] sid = "S-03-Hard" ->
         << <<"EVENT", ":", "Competitor", "opened", "across", "street", "!",
              "Demand", "drops", "unless", "prices", "cut", ".">> >>
    [] sid = "S-04" ->
         << <<"EVENT", ":", "Inventory", "Theft", "!", "Lost", "50", "%",
              "of", "soap", ".">> >>
    [] sid = "S-05-Hard" ->
         << <<"EVENT", ":", "Health", "Inspector", "incoming", "!", "Fine",
              "if", "satisfaction", "<", "90", ".">> >>
    [] sid = "S-06-Hard" ->
         << <<"EVENT", ":", "Loan", "Shark", "demands", "interest",
              "payment", "(", "$", "500", ")", ".">> >>
    [] sid = "S-07-Hard" ->
         << <<"EVENT", ":", "Power", "Outage", "!", "No", "business",
              "today", ".">> >>
    [] sid = "S-08-Hard" ->
         << <<"EVENT", ":", "Scammer", "sued", "for", "'", "slip", "and",
              "fall", "'", ".", "Cash", "settlement", "paid", ".">> >>
    [] OTHER -> <<>>

\* The scenario file's event_tape: the scenario's events, scheduled on
\* EventDay so that the explored horizon meets them.
ScenarioEventTape(sid) ==
  IF ScenarioEvents(sid) = <<>> THEN <<>>
  ELSE [d \in {EventDay} |-> ScenarioEvents(sid)]

\* generator.py 95-105: the file generate_scenarios writes for a scenario.
\* exists / parses say whether open() and json.load() succeed on it; json is
\* the object loaded ("name" is written too; the engine never reads it).
ScenarioFile(sid) ==
  [exists |-> TRUE, parses |-> TRUE,
   json |-> [id |-> sid, seed |-> ScenarioSeed(sid),
             config_overrides |-> ScenarioConfig(sid),
             event_tape |-> ScenarioEventTape(sid)]]

ScenarioFiles == {ScenarioFile(sid) : sid \in ScenarioIds}

\* the fields of a descriptor
DescriptorKeys == {"id", "seed", "config_overrides", "event_tape"}

Without(r, key) == [k \in DOMAIN r \ {key} |-> r[k]]

\* Files a caller may hand to the constructor besides the generated ones:
\* a path with no file, a file that is not JSON, a descriptor short of one
\* field.
DamagedFiles ==
  {[exists |-> FALSE, parses |-> FALSE, json |-> <<>>]}
    \cup {[f EXCEPT !.parses = FALSE, !.json = <<>>] : f \in ScenarioFiles}
    \cup {[f EXCEPT !.json = Without(@, k)] :
            f \in ScenarioFiles, k \in DescriptorKeys}

----------------------------------------------------------------------------
(* Hidden-mechanic descriptors, keyed by scenario id.  get_scenario_secret *)
(* is imported by engine.py:33 from the generator; the descriptors follow  *)
(* the variants of the specification (section 4.4) with the parameter      *)
(* names the engine reads.                                                 *)

NoMechanic == [type |-> "none"]

get_scenario_secret(sid) ==
  CASE sid \in {"S-02", "S-02-Hard"} ->
         [type |-> "lemon_machines", lemon_ids |-> {1, 7},
          degradation_mult |-> 3]
    [] sid \in {"S-07-Hard", "S-01-Hard"} ->
         [type |-> "regime_shift", shift_day |-> 2,
          phase_2 |-> [cost_mult |-> 1500, demand_mult |-> 700]]
    [] sid \in {"S-05-Hard"} ->
         [type |-> "adaptive_competitor", response_delay |-> 2,
          undercut_amount |-> 50]
    [] sid \in {"S-06", "S-06-Hard"} ->
         [type |-> "cascading_failures", load_redistribution |-> 2,
          spatial_damage |-> 20000]
    [] sid \in {"S-04"} ->
         [type |-> "periodic_inspection", interval |-> 2,
          threshold |-> 9900, fine |-> 30000]
    [] sid \in {"S-08", "S-08-Hard"} ->
         [type |-> "repair_fraud", failure_rate |-> 5000]
    [] OTHER -> NoMechanic

----------------------------------------------------------------------------
(* LaundromatEnv construction *)

MachineIds == 1..NumMachines

\* engine.py _initialize_state
InitialMachine(i, cfg) ==
  LET m_type == IF i <= NumWashers THEN "washer" ELSE "dryer"
      broken == cfg.slumlord_start /\ i % 2 = 0
  IN [id |-> i, type |-> m_type,
      status |-> IF broken THEN "broken" ELSE "working",
      age_cycles |-> IF broken THEN 3000
                     ELSE IF cfg.lemon_law THEN 50 ELSE 0,
      health |-> IF broken THEN 0 ELSE HealthOne]

InitializeState(cfg) ==
  [day |-> 1,
   cash |-> IF IsSome(cfg.initial_cash) THEN Val(cfg.initial_cash)
            ELSE IF cfg.slumlord_start THEN 50000 ELSE INITIAL_CASH,
   debt |-> IF IsSome(cfg.initial_debt) THEN Val(cfg.initial_debt)
            ELSE IF cfg.slumlord_start THEN 1000000 ELSE INITIAL_DEBT,
   inventory |-> [soap |-> INITIAL_SOAP, machine_parts |-> INITIAL_PARTS],
   pricing |-> [wash |-> PRICE_WASH, dry |-> PRICE_DRY],
   marketing_spend |-> 0,
   customer_satisfaction |-> SatMax,
   machines |-> [i \in MachineIds |-> InitialMachine(i, cfg)],
   log_history |-> <<>>,
   agent_memory |-> ""]

\* engine.py LaundromatEnv.__init__ 15-39, on the loaded object scenario;
\* rngState is the state of np.random.RandomState(seed)
NewEnv(scenario, rngState) ==
  LET cfg == scenario.config_overrides
  IN [scenario |-> scenario,
      seed |-> scenario.seed,
      rng |-> rngState,
      config |-> cfg,
      event_tape |-> IF "event_tape" \in DOMAIN scenario
                     THEN scenario.event_tape ELSE <<>>,
      utility_cost_mult |-> 1000,
      soap_lead_time |-> IF cfg.supply_shock THEN 14 ELSE 1,
      pending_orders |-> <<>>,
      maintenance_history |-> [i \in {} |-> 0],
      yesterday_customers |-> 0,
      yesterday_turnaway |-> 0,
      yesterday_revenue |-> 0,
      hidden_mechanics |-> get_scenario_secret(scenario.id),
      \* engine.py 46-48, _init_hidden_mechanics
      competitor_prices |->
        IF get_scenario_secret(scenario.id).type = "adaptive_competitor"
        THEN Some([wash |-> 500, dry |-> 400]) ELSE None,
      state |-> InitializeState(cfg)]

\* the outcome of a construction that raised: no engine
NoEngine == [failed |-> TRUE]

\* engine.py 12-34: open() and json.load() succeed and the subscripts
\* ['seed'], ['config_overrides'] and ['id'] find their keys
Constructs(file) ==
  /\ file.exists
  /\ file.parses
  /\ "seed" \in DOMAIN file.json
  /\ "config_overrides" \in DOMAIN file.json
  /\ "id" \in DOMAIN file.json

\* LaundromatEnv(scenario_file): the engines the constructor can return
LaundromatEnv(file) ==
  IF Constructs(file)
  THEN {NewEnv(file.json, r) : r \in SeedStates(file.json.seed)}
  ELSE {NoEngine}

----------------------------------------------------------------------------
(* LaundromatEnv.step.  A frame carries the engine, the step's local       *)
(* variables and whether the step has raised.  The loops of step are       *)
(* recursive operators; each binds the frame g left by one iteration       *)
(* before it goes on to the next.                                          *)

NewFrame(e, a) ==
  [e |-> e, action |-> Some(a), logs |-> <<>>, raised |-> FALSE, demand_override |-> None,
   cashBeforeMaint |-> e.state.cash, cashAfterMaint |-> e.state.cash,
   maintApplied |-> <<>>, maintSkipped |-> <<>>, inspApplied |-> <<>>,
   afterDebt |-> [cash |-> e.state.cash, debt |-> e.state.debt,
                  logs |-> <<>>]]

AddLog(f, line) == [f EXCEPT !.logs = Append(@, line)]

\* engine.py 93-99
UpdateConfigs(f, a) ==
  LET st == f.e.state
      pricing1 == IF DOMAIN a.pricing_change # {}
                  THEN [k \in DOMAIN st.pricing \cup DOMAIN a.pricing_change |->
                          IF k \in DOMAIN a.pricing_change
                          THEN a.pricing_change[k] ELSE st.pricing[k]]
                  ELSE st.pricing
      memory1 == IF IsSome(a.update_memory) /\ Val(a.update_memory) # ""
                 THEN Val(a.update_memory) ELSE st.agent_memory
      marketing1 == IF IsSome(a.marketing_change)
                    THEN Val(a.marketing_change) ELSE st.marketing_spend
  IN [f EXCEPT !.e.state.pricing = pricing1,
               !.e.state.agent_memory = memory1,
               !.e.state.marketing_spend = marketing1]

\* a payment that reduces the debt without the floor at zero
PayDebtNoFloor(f, a) ==
  IF a.pay_debt > 0
  THEN IF f.e.state.cash >= a.pay_debt
       THEN AddLog([f EXCEPT !.e.state.cash = @ - a.pay_debt,
                             !.e.state.debt = @ - a.pay_debt],
                   [tag |-> "FINANCE: Paid", amount |-> a.pay_debt])
       ELSE AddLog(f, [tag |-> "FINANCE: Transaction Declined"])
  ELSE f

\* engine.py 103-109
PayDebt(f, a) ==
  IF a.pay_debt > 0
  THEN IF f.e.state.cash >= a.pay_debt
       THEN AddLog([f EXCEPT !.e.state.cash = @ - a.pay_debt,
                             !.e.state.debt = Max(0, @ - a.pay_debt)],
                   [tag |-> "FINANCE: Paid", amount |-> a.pay_debt])
       ELSE AddLog(f, [tag |-> "FINANCE: Transaction Declined"])
  ELSE f

\* the cash, the debt and the log as the payment sub-step leaves them
AfterDebt(f) ==
  [f EXCEPT !.afterDebt = [cash |-> f.e.state.cash, debt |-> f.e.state.debt,
                           logs |-> f.logs]]

\* engine.py 114-123, one iteration of the loop over buy_inventory.items()
BuyItem(f, item, qty) ==
  LET cost == IF item = "soap" THEN qty * COST_SOAP_UNIT
              ELSE IF item = "machine_parts" THEN qty * COST_PART ELSE 0
      arrival == IF item = "soap" THEN f.e.state.day + f.e.soap_lead_time
                 ELSE f.e.state.day + 1
      order == <<arrival, item, qty>>
  IN AddLog([f EXCEPT !.e.state.cash = @ - cost,
                      !.e.pending_orders = Append(Append(@, order), order)],
            [tag |-> "ORDER: Bought", item |-> item, qty |-> qty,
             cost |-> cost, arrival |-> arrival])

RECURSIVE BuyLoop(_, _, _)
BuyLoop(f, items, i) ==
  IF i > Len(items) THEN f
  ELSE CHOOSE r \in {BuyLoop(g, items, i + 1) :
                        g \in {BuyItem(f, items[i][1], items[i][2])}} : TRUE

\* engine.py 112-123
BuyInventory(f, a) == BuyLoop(f, a.buy_inventory, 1)

\* engine.py 137-152: the five reported bands
HealthBand(health) ==
  IF health * 100 >= 80 * HealthOne THEN "EXCELLENT"
  ELSE IF health * 100 >= 60 * HealthOne THEN "GOOD"
  ELSE IF health * 100 >= 40 * HealthOne THEN "FAIR"
  ELSE IF health * 100 >= 20 * HealthOne THEN "POOR"
  ELSE "CRITICAL"

\* engine.py 138-162: what an inspection reports of an asset, the band of
\* its health and int(remaining * 0.8), int(remaining * 1.2) where remaining
\* is health * 2000 below 2000 cycles of age and health * 1000 from there on
InspectionReport(health, age_cycles) ==
  LET per_health == IF age_cycles < 2000 THEN 2000 ELSE 1000
  IN [condition |-> HealthBand(health),
      remaining_low |-> TruncDiv(health * (per_health \div 250), 5000),
      remaining_high |-> TruncDiv(health * ((per_health * 3) \div 500), 5000)]

\* an inspection that takes its fee before it looks at the funds
InspectChargeFirst(f, machine_id) ==
  IF machine_id \notin MachineIds
  THEN AddLog(f, [tag |-> "ERROR: Machine not found", machine |-> machine_id])
  ELSE
    LET m == f.e.state.machines[machine_id]
        per_health == IF m.age_cycles < 2000 THEN 2000 ELSE 1000
        remaining_low == TruncDiv(m.health * (per_health \div 250), 5000)
        remaining_high == TruncDiv(m.health * ((per_health * 3) \div 500), 5000)
        f1 == [f EXCEPT !.e.state.cash = @ - INSPECTION_COST]
    IN IF f.e.state.cash >= INSPECTION_COST
       THEN AddLog(f1, [tag |-> "INSPECT: Machine", machine |-> m.id,
                        condition |-> HealthBand(m.health),
                        remaining_low |-> remaining_low,
                        remaining_high |-> remaining_high])
       ELSE AddLog(f1, [tag |-> "INSPECT: Insufficient funds"])

\* engine.py 127-164, one iteration of the loop over action.inspections
Inspect(f, machine_id) ==
  IF machine_id \notin MachineIds
  THEN AddLog(f, [tag |-> "ERROR: Machine not found", machine |-> machine_id])
  ELSE
    LET m == f.e.state.machines[machine_id]
        report == InspectionReport(m.health, m.age_cycles)
    IN IF f.e.state.cash >= INSPECTION_COST
       THEN AddLog([f EXCEPT !.e.state.cash = @ - INSPECTION_COST],
                   [tag |-> "INSPECT: Machine", machine |-> m.id,
                    condition |-> report.condition,
                    remaining_low |-> report.remaining_low,
                    remaining_high |-> report.remaining_high])
       ELSE AddLog(f, [tag |-> "INSPECT: Insufficient funds"])

\* one iteration, recorded in inspApplied: the asset asked for, the cash
\* before it, the cash it took, the log lines it added, and whether anything
\* of the engine other than cash is as before
InspectRecorded(f, machine_id) ==
  LET f1 == Inspect(f, machine_id)
  IN [f1 EXCEPT !.inspApplied =
        Append(@, [machine_id |-> machine_id,
                   cashBefore |-> f.e.state.cash,
                   charged |-> f.e.state.cash - f1.e.state.cash,
                   logged |-> SubSeq(f1.logs, Len(f.logs) + 1, Len(f1.logs)),
                   restSame |-> [f1.e EXCEPT !.state.cash = f.e.state.cash]
                                  = f.e])]

RECURSIVE InspectLoop(_, _, _)
InspectLoop(f, reqs, i) ==
  IF i > Len(reqs) THEN f
  ELSE CHOOSE r \in {InspectLoop(g, reqs, i + 1) :
                        g \in {InspectRecorded(f, reqs[i])}} : TRUE

\* engine.py 126: action.inspections is read from the action object; an
\* AgentAction of models.py has no such attribute and the read raises.
ProcessInspections(f, a) ==
  IF ~a.has_inspections THEN [f EXCEPT !.raised = TRUE]
  ELSE InspectLoop(f, a.inspections, 1)

----------------------------------------------------------------------------
(* step: maintenance (engine.py 166-217) *)

SetMachine(f, m) == [f EXCEPT !.e.state.machines[m.id] = m]

\* a cheap repair that takes its cost in the branch and again after it
RepairCheapTwice(f, m) ==
  LET cfg == f.e.config
      cost == (COST_REPAIR_CHEAP * cfg.repair_cost_mult) \div 1000
      grift == cfg.grifter_repairs /\ RngUnit(f.e.rng) < cfg.grift_prob
      f1 == IF cfg.grifter_repairs
            THEN [f EXCEPT !.e.rng = RngNext(@)] ELSE f
      f2 == IF ~grift
            THEN AddLog(SetMachine(f1,
                          [m EXCEPT !.status = "working",
                                    !.health = Min(HealthOne,
                                                   @ + CHEAP_REPAIR_BONUS)]),
                        [tag |-> "MAINT: cheap repair completed",
                         machine |-> m.id])
            ELSE AddLog([f1 EXCEPT !.e.state.cash = @ - cost],
                        [tag |-> "MAINT: cheap repair FAILED",
                         machine |-> m.id])
  IN [f2 EXCEPT !.e.state.cash = @ - cost]

\* engine.py 182-198
RepairCheap(f, m) ==
  LET cfg == f.e.config
      cost == (COST_REPAIR_CHEAP * cfg.repair_cost_mult) \div 1000
      grift == cfg.grifter_repairs /\ RngUnit(f.e.rng) < cfg.grift_prob
      f1 == IF cfg.grifter_repairs
            THEN [f EXCEPT !.e.rng = RngNext(@)] ELSE f
      f2 == IF ~grift
            THEN AddLog(SetMachine(f1,
                          [m EXCEPT !.status = "working",
                                    !.health = Min(HealthOne,
                                                   @ + CHEAP_REPAIR_BONUS)]),
                        [tag |-> "MAINT: cheap repair completed",
                         machine |-> m.id])
            ELSE AddLog(f1, [tag |-> "MAINT: cheap repair FAILED",
                             machine |-> m.id])
  IN [f2 EXCEPT !.e.state.cash = @ - cost]

\* engine.py 200-205
RepairPremium(f, m) ==
  LET cost == (COST_REPAIR_PREMIUM * f.e.config.repair_cost_mult) \div 1000
      f1 == AddLog(SetMachine(f, [m EXCEPT !.status = "working",
                                           !.health = HealthOne]),
                   [tag |-> "MAINT: premium repair fully restored",
                    machine |-> m.id])
  IN [f1 EXCEPT !.e.state.cash = @ - cost]

\* engine.py 207-213
Replace(f, m) ==
  LET cost_m == IF m.type = "washer" THEN COST_WASHER ELSE COST_DRYER
      f1 == SetMachine(f, [m EXCEPT !.age_cycles = 0, !.health = HealthOne,
                                    !.status = "working"])
  IN AddLog([f1 EXCEPT !.e.state.cash = @ - cost_m],
            [tag |-> "MAINT: replaced brand new", machine |-> m.id])

\* engine.py 216-217
TrackMaintenance(f, op) ==
  IF op.action \in {"repair_cheap", "repair_premium", "replace"}
  THEN [f EXCEPT !.e.maintenance_history =
          [i \in DOMAIN @ \cup {op.machine_id} |->
             IF i = op.machine_id THEN f.e.state.day ELSE @[i]]]
  ELSE f

\* a maintenance iteration that charges a cheap repair before it looks the
\* asset up
MaintainChargeFirst(f, op) ==
  IF op.machine_id \notin MachineIds
  THEN IF op.action = "repair_cheap"
       THEN [f EXCEPT !.e.state.cash =
               @ - (COST_REPAIR_CHEAP * f.e.config.repair_cost_mult) \div 1000]
       ELSE f
  ELSE
    LET m == f.e.state.machines[op.machine_id]
        f1 == CASE op.action = "repair_cheap" -> RepairCheap(f, m)
                [] op.action = "repair_premium" -> RepairPremium(f, m)
                [] op.action = "replace" -> Replace(f, m)
                [] OTHER -> f
    IN TrackMaintenance(f1, op)

\* engine.py 168-217, one iteration of the loop over action.maintenance_ops
Maintain(f, op) ==
  IF op.machine_id \notin MachineIds THEN f
  ELSE
    LET m == f.e.state.machines[op.machine_id]
        f1 == CASE op.action = "repair_cheap" -> RepairCheap(f, m)
                [] op.action = "repair_premium" -> RepairPremium(f, m)
                [] op.action = "replace" -> Replace(f, m)
                [] OTHER -> f
    IN TrackMaintenance(f1, op)

\* The loop; maintApplied records, for each operation on an existing asset,
\* the operation, the asset's type, the cash the iteration took, the log
\* lines it added, the value u the stream would give at that point, whether
\* the iteration drew it and whether the repair was reported as failed.
RECURSIVE MaintLoop(_, _, _)
MaintLoop(f, ops, i) ==
  IF i > Len(ops) THEN f
  ELSE
    LET f1 == Maintain(f, ops[i])
        f2 == IF ops[i].machine_id \in MachineIds
              THEN [f1 EXCEPT !.maintApplied =
                      Append(@, [op |-> ops[i],
                                 type |-> f.e.state.machines[ops[i].machine_id].type,
                                 charged |-> f.e.state.cash - f1.e.state.cash,
                                 logged |-> Len(f1.logs) - Len(f.logs),
                                 u |-> RngUnit(f.e.rng),
                                 drew |-> f1.e.rng # f.e.rng,
                                 failed |-> /\ Len(f1.logs) > Len(f.logs)
                                            /\ f1.logs[Len(f1.logs)].tag
                                                 = "MAINT: cheap repair FAILED"])]
              ELSE [f1 EXCEPT !.maintSkipped =
                      Append(@, [op |-> ops[i],
                                 same |-> f1.e = f.e,
                                 charged |-> f.e.state.cash - f1.e.state.cash,
                                 logged |-> SubSeq(f1.logs, Len(f.logs) + 1,
                                                   Len(f1.logs))])]
    IN CHOOSE r \in {MaintLoop(g, ops, i + 1) : g \in {f2}} : TRUE

\* engine.py 166-217
ProcessMaintenance(f, a) == MaintLoop(f, a.maintenance_ops, 1)

----------------------------------------------------------------------------
(* step: event tape (engine.py 219-244) *)

\* Python's `phrase in e` on the tokenised strings
Contains(phrase, e) ==
  \E k \in 0..(Len(e) - Len(phrase)) :
     \A j \in 1..Len(phrase) : e[k + j] = phrase[j]

\* engine.py 224-244, one iteration of the loop over the day's events
ApplyEvent(f, ev) ==
  IF Contains(<<"Rent", "Hike">>, ev)
  THEN [f EXCEPT !.e.config.rent_mult = (@ * 11) \div 10]
  ELSE IF Contains(<<"FACTORY", "RECALL">>, ev)
  THEN [f EXCEPT !.e.state.machines =
          [i \in MachineIds |-> [@[i] EXCEPT !.status = "broken",
                                             !.health = 0]]]
  ELSE IF Contains(<<"Competitor">>, ev)
  THEN [f EXCEPT !.e.config.competitor_active = TRUE]
  ELSE IF Contains(<<"Health", "Inspector">>, ev)
  THEN IF f.e.state.customer_satisfaction < 9000
       THEN AddLog([f EXCEPT !.e.state.cash = @ - 50000],
                   [tag |-> "FINE: Failed health inspection! -$500"])
       ELSE f
  ELSE IF Contains(<<"Loan", "Shark">>, ev)
  THEN [f EXCEPT !.e.state.cash = @ - 50000]
  ELSE IF Contains(<<"Power", "Outage">>, ev)
  THEN AddLog([f EXCEPT !.demand_override = Some(0)],
              [tag |-> "CRITICAL: Power outage. 0 customers served."])
  ELSE IF Contains(<<"Scammer">>, ev)
  THEN [f EXCEPT !.e.state.cash = @ - 20000]
  ELSE IF Contains(<<"Theft">>, ev)
  THEN [f EXCEPT !.e.state.inventory.soap = @ \div 2]
  ELSE f

RECURSIVE EventLoop(_, _, _)
EventLoop(f, events, i) ==
  IF i > Len(events) THEN f
  ELSE CHOOSE r \in {EventLoop(g, events, i + 1) :
                        g \in {ApplyEvent(f, events[i])}} : TRUE

\* engine.py 220: self.event_tape.get(str(day), [])
EventsOn(e, day) ==
  IF day \in DOMAIN e.event_tape THEN e.event_tape[day] ELSE <<>>

\* engine.py 219-244
ProcessEventTape(f) == EventLoop(f, EventsOn(f.e, f.e.state.day), 1)

\* engine.py 246-250
InflationCheck(f) ==
  IF f.e.config.hyper_inflation
     /\ f.e.state.day % f.e.config.inflation_interval = 0
  THEN LET mult == (f.e.utility_cost_mult * 11) \div 10
       IN AddLog([f EXCEPT !.e.utility_cost_mult = mult],
                 [tag |-> "MACRO: Inflation spike!", utilities |-> mult])
  ELSE f

----------------------------------------------------------------------------
(* src/src/mechanics.py *)

\* int(demand * 0.70) in double arithmetic: the product falls just below
\* the integer for these arguments
Int070(d) ==
  IF d \in {90, 170, 180, 330, 340, 350, 360} THEN (d * 7) \div 10 - 1
  ELSE TruncDiv(d * 7, 10)

\* mechanics.py 85-120; flux is the value of rng.randint(-5, 6)
calculate_demand(base_demand, pricing, satisfaction, flux, cfg) ==
  LET sensitivity == cfg.price_sensitivity
      pen_wash == IF pricing.wash > FAIR_MARKET_WASH
                  THEN (pricing.wash - FAIR_MARKET_WASH) * sensitivity ELSE 0
      pen_dry == IF pricing.dry > FAIR_MARKET_DRY
                 THEN (pricing.dry - FAIR_MARKET_DRY) * sensitivity ELSE 0
      \* sat_modifier in halves
      sat_modifier2 == IF satisfaction < 5000 THEN 1
                       ELSE IF satisfaction < cfg.satisfaction_threshold
                               /\ cfg.gentrification_strict THEN 0
                       ELSE 2
      x == (base_demand + flux) * 10000 - (pen_wash + pen_dry)
      demand == TruncDiv(x * sat_modifier2, 20000)
      demand1 == IF cfg.competitor_active THEN Int070(demand) ELSE demand
  IN Max(0, demand1)

\* a wear-out branch that is linear in the age factor
calculate_degradationLinear(age_cycles, u, multiplier) ==
  IF age_cycles < 100
  THEN IF u < 500 THEN 50000 * multiplier ELSE 1000 * multiplier
  ELSE IF age_cycles <= 2000
  THEN IF u < 5 THEN 100000 * multiplier ELSE 1000 * multiplier
  ELSE (1000 + (age_cycles - 2000)) * multiplier

\* mechanics.py 6-32; u is the value of rng.random() when one is drawn.
\* Returns the decrement in 1e-6.
calculate_degradation(age_cycles, u, multiplier) ==
  IF age_cycles < 100
  THEN IF u < 500 THEN 50000 * multiplier ELSE 1000 * multiplier
  ELSE IF age_cycles <= 2000
  THEN IF u < 5 THEN 100000 * multiplier ELSE 1000 * multiplier
  ELSE (1000 + ((age_cycles - 2000) * (age_cycles - 2000)) \div 1000)
         * multiplier

\* mechanics.py 14-25: the two lower regimes draw once, the third never
DegradationDraws(age_cycles) == IF age_cycles <= 2000 THEN 1 ELSE 0

\* mechanics.py 6-32 as called with the stream in state rng: the decrement
\* returned and the state the stream is left in
DegradationCall(age_cycles, rng, multiplier) ==
  [deg |-> calculate_degradation(age_cycles, RngUnit(rng), multiplier),
   rng |-> IF DegradationDraws(age_cycles) = 1 THEN RngNext(rng) ELSE rng]

\* mechanics.py 52-81: probability of a symptom line and number of
\* phrasings to choose from, by health
SymptomLevel(h) ==
  IF h * 10 < 2 * HealthOne THEN [prob |-> 7000, choices |-> 4, level |-> 4]
  ELSE IF h * 10 < 4 * HealthOne THEN [prob |-> 5000, choices |-> 3, level |-> 3]
  ELSE IF h * 10 < 6 * HealthOne THEN [prob |-> 2500, choices |-> 2, level |-> 2]
  ELSE IF h * 10 < 8 * HealthOne THEN [prob |-> 1000, choices |-> 0, level |-> 1]
  ELSE [prob |-> 0, choices |-> 0, level |-> 0]

\* a log generator that reports the failure and leaves the status alone
generate_logsNoFlip(f, m) ==
  IF m.health <= 0
  THEN AddLog(SetMachine(f, m),
              [tag |-> "CRITICAL: Machine has stopped working",
               machine |-> m.id])
  ELSE SetMachine(f, m)

\* mechanics.py 34-83: works on the frame (machine m, the rng, the logs)
generate_logs(f, m) ==
  IF m.health <= 0
  THEN AddLog(SetMachine(f, [m EXCEPT !.status = "broken"]),
              [tag |-> "CRITICAL: Machine has stopped working",
               machine |-> m.id])
  ELSE
    LET lv == SymptomLevel(m.health)
    IN IF lv.level = 0 THEN SetMachine(f, m)
       ELSE
         LET u == RngUnit(f.e.rng)
             r1 == RngNext(f.e.rng)
             f1 == SetMachine([f EXCEPT !.e.rng = r1], m)
         IN IF u < lv.prob
            THEN IF lv.choices > 0
                 THEN AddLog([f1 EXCEPT !.e.rng = RngNext(r1)],
                             [tag |-> "SYMPTOM", machine |-> m.id,
                              level |-> lv.level,
                              phrase |-> RngInt(r1, 0, lv.choices)])
                 ELSE AddLog(f1, [tag |-> "SYMPTOM", machine |-> m.id,
                                  level |-> lv.level, phrase |-> 0])
            ELSE f1

----------------------------------------------------------------------------
(* src/src/scorer.py *)

\* an asset value without the scrap floor
RECURSIVE AssetValueNoFloor(_, _)
AssetValueNoFloor(machines, i) ==
  IF i > Len(machines) THEN 0
  ELSE LET base_cost == IF machines[i].type = "washer" THEN COST_WASHER
                        ELSE COST_DRYER
       IN ((base_cost \div 100) * machines[i].health) \div 100
          + AssetValueNoFloor(machines, i + 1)

\* scorer.py 5-18; asset values are summed in 1e-2 cents
RECURSIVE AssetValue(_, _)
AssetValue(machines, i) ==
  IF i > Len(machines) THEN 0
  ELSE LET base_cost == IF machines[i].type = "washer" THEN COST_WASHER
                        ELSE COST_DRYER
       IN ((base_cost \div 100) * Max(HealthOne \div 10, machines[i].health))
             \div 100
          + AssetValue(machines, i + 1)

calculate_net_business_value(state) ==
  state.cash + RoundDiv(AssetValue(state.machines, 1), 100) - state.debt

----------------------------------------------------------------------------
(* step: demand, throughput, money (engine.py 252-316) *)

CountWorking(machines, type) ==
  Cardinality({i \in MachineIds :
                 machines[i].type = type /\ machines[i].status = "working"})

\* engine.py 253-263
ComputeDemand(f) ==
  LET cfg == f.e.config
      r0 == f.e.rng
      r1 == RngNext(r0)
      draw == RngInt(r0, 20, 40)
      base0 == IF cfg.heatwave THEN draw * 3 ELSE draw
      base_d_val == TruncDiv(base0 * cfg.base_demand_mult, 1000)
      flux == RngInt(r1, -5, 6)
      d == calculate_demand(base_d_val, f.e.state.pricing,
                            f.e.state.customer_satisfaction, flux, cfg)
  IN [e |-> [f.e EXCEPT !.rng = RngNext(r1)],
      demand |-> IF IsSome(f.demand_override) THEN Val(f.demand_override)
                 ELSE d]

\* a cycle limit that ignores water rationing
MaxCyclesNoRationing(cfg) == MAX_CYCLES_PER_DAY

\* engine.py 270-273
MaxCycles(cfg) ==
  IF cfg.water_rationing THEN MAX_CYCLES_PER_DAY \div 2
  ELSE MAX_CYCLES_PER_DAY

\* engine.py 265-294: returns the served loads, the lost customers and the
\* soap left
Throughput(machines, cfg, demand, soap) ==
  LET working_washers == CountWorking(machines, "washer")
      working_dryers == CountWorking(machines, "dryer")
      max_cycles == MaxCycles(cfg)
      max_wash_loads == working_washers * max_cycles
      max_dry_loads == working_dryers * max_cycles
      washes0 == Min(demand, max_wash_loads)
      dries0 == Min(washes0, max_dry_loads)
      lost0 == demand - washes0
      short == soap * LoadsPerSoap < washes0
      washes1 == IF short THEN soap * LoadsPerSoap ELSE washes0
  IN [working_washers |-> working_washers,
      working_dryers |-> working_dryers,
      actual_washes |-> washes1,
      actual_dries |-> IF short THEN Min(washes1, dries0) ELSE dries0,
      lost_customers |-> IF short THEN lost0 + (demand - washes1) ELSE lost0,
      soap_short |-> short,
      soap |-> IF short THEN 0 ELSE soap - washes0 \div LoadsPerSoap]

\* engine.py 297-301
Financials(e, t) ==
  LET income == t.actual_washes * e.state.pricing.wash
                + t.actual_dries * e.state.pricing.dry
      utility_bill == ((t.actual_washes + t.actual_dries)
                        * COST_UTILITY_PER_LOAD * e.utility_cost_mult) \div 1000
      rent == (RENT_DAILY * e.config.rent_mult) \div 1000
  IN [income |-> income,
      daily_profit |-> income - utility_bill - rent - e.state.marketing_spend]

\* engine.py 304-316
Interest(state, cfg) ==
  LET debt1 == IF state.debt > 0
               THEN state.debt + (state.debt * cfg.interest_rate) \div 1000
               ELSE state.debt
      cash1 == IF state.cash < 0
               THEN state.cash - (Abs(state.cash) * (cfg.interest_rate * 2)) \div 1000
               ELSE state.cash
  IN [state EXCEPT !.debt = debt1, !.cash = cash1]

----------------------------------------------------------------------------
(* step: degradation and satisfaction (engine.py 318-340) *)

\* an iteration that does not look at the asset's status
DegradeMachineAll(f, i, t) ==
  LET m == f.e.state.machines[i]
      cycles == IF m.type = "washer"
                THEN (IF t.working_washers > 0
                      THEN t.actual_washes \div t.working_washers ELSE 0)
                ELSE (IF t.working_dryers > 0
                      THEN t.actual_dries \div t.working_dryers ELSE 0)
      age1 == m.age_cycles + cycles
      c == DegradationCall(age1, f.e.rng, f.e.config.degradation_mult)
      deg == c.deg * cycles
      f1 == [f EXCEPT !.e.rng = c.rng]
  IN generate_logs(f1, [m EXCEPT !.age_cycles = age1, !.health = @ - deg])

\* engine.py 321-332, one iteration of the loop over the machines
DegradeMachine(f, i, t) ==
  LET m == f.e.state.machines[i]
  IN IF m.status # "working" THEN f
     ELSE
       LET cycles == IF m.type = "washer"
                     THEN (IF t.working_washers > 0
                           THEN t.actual_washes \div t.working_washers ELSE 0)
                     ELSE (IF t.working_dryers > 0
                           THEN t.actual_dries \div t.working_dryers ELSE 0)
           age1 == m.age_cycles + cycles
           c == DegradationCall(age1, f.e.rng, f.e.config.degradation_mult)
           deg == c.deg * cycles
           f1 == [f EXCEPT !.e.rng = c.rng]
       IN generate_logs(f1, [m EXCEPT !.age_cycles = age1,
                                      !.health = @ - deg])

RECURSIVE DegradeLoop(_, _, _)
DegradeLoop(f, i, t) ==
  IF i > NumMachines THEN f
  ELSE CHOOSE r \in {DegradeLoop(g, i + 1, t) :
                        g \in {DegradeMachine(f, i, t)}} : TRUE

\* the update without its clamp
SatisfactionUpdateUnclamped(state, lost_customers) ==
  state.customer_satisfaction
    + (IF lost_customers > 0 THEN -(lost_customers * 50) ELSE 0)
    + TruncDiv(state.marketing_spend, 10)

\* engine.py 335-340
SatisfactionUpdate(state, lost_customers) ==
  LET c1 == IF lost_customers > 0 THEN -(lost_customers * 50) ELSE 0
      c2 == IF state.machines[1].health * 2 < HealthOne THEN c1 - 100 ELSE c1
      sat_change == c2 + TruncDiv(state.marketing_spend, 10)
  IN Max(0, Min(SatMax, state.customer_satisfaction + sat_change))

----------------------------------------------------------------------------
(* The observation (engine.py 487-541) *)

\* a mapping whose thresholds are exclusive
satisfaction_to_starsExclusive(satisfaction) ==
  IF satisfaction > 9000 THEN 5
  ELSE IF satisfaction > 7500 THEN 4
  ELSE IF satisfaction > 5500 THEN 3
  ELSE IF satisfaction > 3500 THEN 2
  ELSE 1

\* engine.py 529-536
satisfaction_to_stars(satisfaction) ==
  IF satisfaction >= 9000 THEN 5
  ELSE IF satisfaction >= 7500 THEN 4
  ELSE IF satisfaction >= 5500 THEN 3
  ELSE IF satisfaction >= 3500 THEN 2
  ELSE 1

\* engine.py 538-541; u is the draw behind rng.uniform(-0.05, 0.05); the
\* noise is taken in steps of 1e-3
add_accounting_noise(value, u) ==
  RoundDiv(value * (1000 + (u \div 100 - 50)), 1000)

LastMaintenance(e, i) ==
  IF i \in DOMAIN e.maintenance_history THEN e.maintenance_history[i] ELSE 0

\* a sanitizer that copies the whole machine
SanitizeMachineLeaky(e, m) ==
  [id |-> m.id, type |-> m.type, status |-> m.status,
   last_maintenance_day |-> LastMaintenance(e, m.id),
   days_since_maintenance |-> e.state.day - LastMaintenance(e, m.id),
   health |-> m.health]

\* engine.py 514-527
SanitizeMachine(e, m) ==
  [id |-> m.id, type |-> m.type, status |-> m.status,
   last_maintenance_day |-> LastMaintenance(e, m.id),
   days_since_maintenance |-> e.state.day - LastMaintenance(e, m.id)]

sanitize_machines(e) ==
  [i \in MachineIds |-> SanitizeMachine(e, e.state.machines[i])]

\* a slice that keeps the first ten lines, list[:10]
FirstTen(logs) ==
  IF Len(logs) <= 10 THEN logs ELSE SubSeq(logs, 1, 10)

\* Python's list[-10:]
LastTen(logs) ==
  IF Len(logs) <= 10 THEN logs ELSE SubSeq(logs, Len(logs) - 9, Len(logs))

\* engine.py 487-512; draws the noise from e.rng (the caller advances it)
create_observation(e) ==
  [day |-> e.state.day,
   cash |-> add_accounting_noise(e.state.cash, RngUnit(e.rng)),
   debt |-> e.state.debt,
   inventory |-> e.state.inventory,
   pricing |-> e.state.pricing,
   machines |-> sanitize_machines(e),
   daily_logs |-> LastTen(e.state.log_history),
   satisfaction_stars |-> satisfaction_to_stars(e.state.customer_satisfaction),
   agent_memory |-> e.state.agent_memory,
   yesterday_stats |-> [customers_served |-> e.yesterday_customers,
                        customers_turned_away |-> e.yesterday_turnaway,
                        revenue |-> e.yesterday_revenue]]

\* A record extended by one field (obs['_internal_metrics'] = ...)
WithField(r, name, v) ==
  [k \in DOMAIN r \cup {name} |-> IF k = name THEN v ELSE r[k]]

----------------------------------------------------------------------------
(* LaundromatEnv.step, whole (engine.py 90-364) *)

NoStep ==
  [raised |-> FALSE, stepped |-> FALSE, action |-> None, day |-> 0,
   demand |-> 0, actual_washes |-> 0, actual_dries |-> 0,
   lost_customers |-> 0, working_washers |-> 0, working_dryers |-> 0,
   soap_short |-> FALSE, cashBeforeMaint |-> 0, cashAfterMaint |-> 0,
   maintApplied |-> <<>>, logs |-> <<>>, daily_profit |-> 0,
   pendingBefore |-> <<>>, before |-> None,
   maintSkipped |-> <<>>, inspApplied |-> <<>>,
   afterDebt |-> [cash |-> 0, debt |-> 0, logs |-> <<>>],
   atService |-> None]

\* engine.py 345-364: the final state update and the returned observation
FinalUpdate(e0, f, d, t, fin, f4) ==
  LET sat == SatisfactionUpdate(f4.e.state, t.lost_customers)
      e5 == [f4.e EXCEPT !.state.customer_satisfaction = sat,
                         !.state.day = @ + 1,
                         !.state.log_history = f4.logs,
                         !.yesterday_customers = t.actual_washes,
                         !.yesterday_turnaway = t.lost_customers,
                         !.yesterday_revenue = fin.income,
                         !.rng = RngNext(@)]
      o == create_observation([e5 EXCEPT !.rng = f4.e.rng])
      metrics == [daily_profit |-> fin.daily_profit,
                  nbv |-> calculate_net_business_value(e5.state),
                  true_satisfaction |-> sat]
  IN [e |-> e5,
      obs |-> Some(WithField(o, "_internal_metrics", metrics)),
      last |-> [raised |-> FALSE, stepped |-> TRUE, action |-> f.action,
                day |-> e0.state.day,
                demand |-> d.demand, actual_washes |-> t.actual_washes,
                actual_dries |-> t.actual_dries,
                lost_customers |-> t.lost_customers,
                working_washers |-> t.working_washers,
                working_dryers |-> t.working_dryers,
                soap_short |-> t.soap_short,
                cashBeforeMaint |-> f.cashBeforeMaint,
                cashAfterMaint |-> f.cashAfterMaint,
                maintApplied |-> f.maintApplied,
                logs |-> f4.logs, daily_profit |-> fin.daily_profit,
                pendingBefore |-> e0.pending_orders,
                before |-> Some(e0.state),
                maintSkipped |-> f.maintSkipped,
                inspApplied |-> f.inspApplied,
                afterDebt |-> f.afterDebt,
                atService |-> Some([machines |-> f.e.state.machines,
                                    soap |-> f.e.state.inventory.soap,
                                    config |-> f.e.config])]]

\* engine.py 265-332: throughput, money, interest, degradation
Operate(e0, f, d) ==
  LET f1 == IF f.e.config.water_rationing
            THEN AddLog([f EXCEPT !.e = d.e],
                        [tag |-> "MACRO: Water rationing in effect."])
            ELSE [f EXCEPT !.e = d.e]
      t == Throughput(f1.e.state.machines, f1.e.config, d.demand,
                      f1.e.state.inventory.soap)
      f2 == IF t.soap_short
            THEN AddLog(f1, [tag |-> "CRITICAL: Ran out of soap!"])
            ELSE f1
      fin == Financials(f2.e, t)
      st3 == Interest([f2.e.state EXCEPT !.inventory.soap = t.soap,
                                         !.cash = @ + fin.daily_profit],
                      f2.e.config)
  IN CHOOSE r \in {FinalUpdate(e0, f, d, t1, fin1, f4) :
                     t1 \in {t}, fin1 \in {fin},
                     f4 \in {DegradeLoop([f2 EXCEPT !.e.state = st3], 1, t)}} :
       TRUE

\* engine.py 252-364: the part of step after the event tape
FinishStep(e0, f) ==
  CHOOSE r \in {Operate(e0, f, d) : d \in {ComputeDemand(f)}} : TRUE

\* a step that goes through the day's events before the maintenance
StepEventsFirst(e, a) ==
  LET f3 == ProcessInspections(
              BuyInventory(
                AfterDebt(PayDebt(UpdateConfigs(NewFrame(e, a), a), a)), a), a)
      raise == [e |-> f3.e, obs |-> None,
                last |-> [NoStep EXCEPT !.raised = TRUE, !.action = Some(a),
                                        !.day = e.state.day, !.logs = f3.logs,
                                        !.pendingBefore = e.pending_orders,
                                        !.before = Some(e.state),
                                        !.afterDebt = f3.afterDebt]]
  IN IF f3.raised THEN raise
     ELSE CHOOSE r \in
            {FinishStep(e, InflationCheck(
                             [g EXCEPT !.cashBeforeMaint = f3.e.state.cash,
                                       !.cashAfterMaint = g.e.state.cash])) :
               g \in {ProcessMaintenance(ProcessEventTape(f3), a)}} : TRUE

\* engine.py 90-364.  Returns the engine after the call, the observation
\* returned (None when the call raises) and the record of the call.
Step(e, a) ==
  LET f3 == ProcessInspections(
              BuyInventory(
                AfterDebt(PayDebt(UpdateConfigs(NewFrame(e, a), a), a)), a), a)
      raise == [e |-> f3.e, obs |-> None,
                last |-> [NoStep EXCEPT !.raised = TRUE, !.action = Some(a),
                                        !.day = e.state.day, !.logs = f3.logs,
                                        !.pendingBefore = e.pending_orders,
                                        !.before = Some(e.state),
                                        !.afterDebt = f3.afterDebt]]
  IN IF f3.raised THEN raise
     ELSE CHOOSE r \in
            {FinishStep(e, InflationCheck(ProcessEventTape(
                             [g EXCEPT !.cashBeforeMaint = f3.e.state.cash,
                                       !.cashAfterMaint = g.e.state.cash]))) :
               g \in {ProcessMaintenance(f3, a)}} : TRUE

----------------------------------------------------------------------------
(* The actions an agent may return (models.py AgentAction and the          *)
(* inspections list the engine reads)                                      *)

\* models.py 29-35: AgentAction() with every field at its default
DefaultAction ==
  [pricing_change |-> <<>>, buy_inventory |-> <<>>, maintenance_ops |-> <<>>,
   has_inspections |-> FALSE, inspections |-> <<>>,
   marketing_change |-> None, pay_debt |-> 0, update_memory |-> None]

\* an action object that also carries an (empty) inspections list
IdleAction == [DefaultAction EXCEPT !.has_inspections = TRUE]

Op(id, action) == [machine_id |-> id, action |-> action]

AllCheap == [i \in MachineIds |-> Op(i, "repair_cheap")]

ActionSet ==
  { DefaultAction,
    [DefaultAction EXCEPT !.buy_inventory = << <<"soap", 5>> >>,
                          !.maintenance_ops = << Op(1, "repair_premium") >>],
    IdleAction,
    [IdleAction EXCEPT !.pay_debt = 10000],
    [IdleAction EXCEPT !.pay_debt = 500000],
    [IdleAction EXCEPT !.buy_inventory =
                          << <<"soap", 5>>, <<"machine_parts", 1>> >>],
    [IdleAction EXCEPT !.inspections = <<1, 11>>],
    [IdleAction EXCEPT !.maintenance_ops =
                          << Op(1, "repair_cheap"), Op(2, "repair_premium") >>],
    [IdleAction EXCEPT !.maintenance_ops =
                          << Op(7, "replace"), Op(2, "replace"),
                             Op(11, "repair_cheap"), Op(3, "inspect") >>],
    [IdleAction EXCEPT !.maintenance_ops = AllCheap],
    [IdleAction EXCEPT !.pricing_change = [k \in {"wash"} |-> 650],
                       !.update_memory = Some("note"),
                       !.marketing_change = Some(2000)],
    [IdleAction EXCEPT !.pricing_change = [k \in {"dry"} |-> 300],
                       !.update_memory = Some(""),
                       !.marketing_change = Some(0)] }

----------------------------------------------------------------------------
(* The Smart baseline (baselines.py 6-107).  Estimates are in 1e-3, prices  *)
(* and budgets in cents.                                                   *)

\* baselines.py 7-10 and 104: the instance made when the module is loaded
SmartAgent ==
  [machine_estimates |-> [i \in {} |-> 0],
   last_inspection |-> [i \in {} |-> 0],
   pricing_strategy |-> [wash |-> 500, dry |-> 400]]

\* d[k] = v
Put(d, k, v) == [x \in DOMAIN d \cup {k} |-> IF x = k THEN v ELSE d[x]]

\* baselines.py 78-92: the estimate read off the band of an inspection line
BandEstimate(condition) ==
  CASE condition = "EXCELLENT" -> 900
    [] condition = "GOOD" -> 700
    [] condition = "FAIR" -> 500
    [] condition = "POOR" -> 300
    [] condition = "CRITICAL" -> 100
    [] OTHER -> 500

\* baselines.py 75-102.  The "Loud banging" branch parses the text after
\* "Machine " as an integer; the engine's line ends in " area", int() raises
\* and the except clause passes: the line changes nothing.
RECURSIVE update_estimates(_, _, _)
update_estimates(ag, logs, k) ==
  IF k > Len(logs) THEN ag
  ELSE IF logs[k].tag = "INSPECT: Machine"
  THEN update_estimates(
         [ag EXCEPT !.machine_estimates =
            Put(@, logs[k].machine, BandEstimate(logs[k].condition))],
         logs, k + 1)
  ELSE update_estimates(ag, logs, k + 1)

\* baselines.py 22-49, one iteration of the loop over obs['machines']:
\* the agent after it, and the operation it appended (if any)
SmartMachine(ag, o, m) ==
  LET est == ag.machine_estimates
      est0 == IF m.id \in DOMAIN est THEN est[m.id] - 5 ELSE 1000
      days_since_check ==
        o.day - (IF m.id \in DOMAIN ag.last_inspection
                 THEN ag.last_inspection[m.id] ELSE 0)
      inspect == days_since_check > 30 /\ o.cash > 10000
      est1 == IF est0 < 400 THEN est0 + 300 ELSE est0
  IN IF m.status = "broken"
     THEN [agent |-> [ag EXCEPT !.machine_estimates = Put(est, m.id, 1000)],
           ops |-> << Op(m.id, "repair_premium") >>]
     ELSE [agent |-> [ag EXCEPT !.machine_estimates = Put(est, m.id, est1),
                                !.last_inspection =
                                   IF inspect THEN Put(@, m.id, o.day) ELSE @],
           ops |-> IF est0 < 400 THEN << Op(m.id, "repair_cheap") >>
                   ELSE <<>>]

RECURSIVE SmartMachines(_, _, _, _)
SmartMachines(ag, o, i, ops) ==
  IF i > Len(o.machines) THEN [agent |-> ag, ops |-> ops]
  ELSE CHOOSE r \in
         {SmartMachines(s.agent, o, i + 1, ops \o s.ops) :
            s \in {SmartMachine(ag, o, o.machines[i])}} : TRUE

\* baselines.py 12-73: the agent after the decision and the AgentAction
\* it returns.  AgentAction has no inspections field (models.py 29-35), so
\* the inspections list handed to its constructor is not on the object.
act(ag, o) ==
  LET r == SmartMachines(update_estimates(ag, o.daily_logs, 1), o, 1, <<>>)
      wash == r.agent.pricing_strategy.wash
      wash1 == IF o.yesterday_stats.customers_turned_away > 5
               THEN wash + 25
               ELSE IF o.yesterday_stats.customers_served < 10
               THEN Max(200, wash - 25)
               ELSE wash
      ag1 == [r.agent EXCEPT !.pricing_strategy.wash = wash1]
  IN [agent |-> ag1,
      action |->
        [DefaultAction EXCEPT
           !.maintenance_ops = r.ops,
           !.buy_inventory = IF o.inventory.soap < 50
                             THEN << <<"soap", 50>> >> ELSE <<>>,
           !.pricing_change = ag1.pricing_strategy,
           !.marketing_change = Some(IF o.cash > 100000 THEN 1000 ELSE 0),
           !.update_memory =
              Some("Smart Agent: Est Health "
                     \o ToString(ag1.machine_estimates))]]

\* baselines.py 106-107
smart_agent_wrapper(ag, o) == act(ag, o)

----------------------------------------------------------------------------
(* run_simulation (main.py 111-167) and the state machine *)

\* main.py 115: the run constructs its engine from one of the files
InitFrom(files) ==
  /\ \E file \in files :
       /\ env \in LaundromatEnv(file)
       /\ twin \in LaundromatEnv(file)
  /\ obs = None
  /\ agentObs = None
  /\ last = NoStep
  /\ pc = IF "failed" \in DOMAIN env THEN "failed" ELSE "new"
  /\ hist = <<>>
  /\ twinObs = None
  /\ twinPc = "new"
  /\ call = None
  /\ result = None
  /\ agent = SmartAgent
  /\ runs = <<>>

Init == InitFrom(ScenarioFiles)

\* main.py 124-126: the initial observation, with its metrics block
FirstObservation(e) ==
  WithField(create_observation(e), "_internal_metrics",
            [nbv |-> 0, daily_profit |-> 0,
             true_satisfaction |-> e.state.customer_satisfaction])

InitialObservation ==
  /\ pc = "new"
  /\ obs' = Some(FirstObservation(env))
  /\ env' = [env EXCEPT !.rng = RngNext(@)]
  /\ hist' = Append(hist, [action |-> None, obs |-> obs'])
  /\ pc' = "loop"
  /\ UNCHANGED <<agentObs, last, twin, twinObs, twinPc, call, result, agent, runs>>

\* main.py 134: what run_simulation hands to agent_func
ObservationForAgent(o) == o

\* main.py 128-140, one iteration: the agent decides on the observation
\* held, the engine steps; an exception ends the run
SimulateDay(a) ==
  /\ pc = "loop"
  /\ agentObs' = ObservationForAgent(obs)
  /\ \E r \in {Step(env, a)} :
        /\ env' = r.e
        /\ last' = r.last
        /\ obs' = IF r.last.raised THEN obs ELSE r.obs
        /\ pc' = IF r.last.raised THEN "error" ELSE "loop"
        /\ hist' = Append(hist, [action |-> Some(a), obs |-> r.obs])
  /\ UNCHANGED <<twin, twinObs, twinPc, call, result, agent, runs>>

Next ==
  \/ InitialObservation
  \/ \E a \in ActionSet : Len(hist) <= MaxDays /\ SimulateDay(a)

Spec == Init /\ [][Next]_vars

\* The same run repeated on the second engine, with the recorded actions
TwinInitialObservation ==
  /\ twinPc = "new"
  /\ Len(hist) >= 1
  /\ twinObs' = Some(FirstObservation(twin))
  /\ twin' = [twin EXCEPT !.rng = RngNext(@)]
  /\ twinPc' = "loop"
  /\ UNCHANGED <<env, obs, agentObs, last, pc, hist, call, result, agent, runs>>

TwinDay ==
  /\ twinPc = "loop"
  /\ twin.state.day < Len(hist)
  /\ \E r \in {Step(twin, Val(hist[twin.state.day + 1].action))} :
        /\ twin' = r.e
        /\ twinObs' = r.obs
        /\ twinPc' = IF r.last.raised THEN "error" ELSE "loop"
  /\ UNCHANGED <<env, obs, agentObs, last, pc, hist, call, result, agent, runs>>

NextTwin ==
  \/ InitialObservation
  \/ \E a \in ActionSet : Len(hist) <= MaxTwinDays /\ SimulateDay(a)
  \/ TwinInitialObservation
  \/ TwinDay

SpecTwin == Init /\ [][NextTwin]_vars

\* Long runs: the agent returns the action that does nothing every day
NextLong ==
  \/ InitialObservation
  \/ Len(hist) <= MaxLongDays /\ SimulateDay(IdleAction)

SpecLong == Init /\ [][NextLong]_vars

----------------------------------------------------------------------------
(* run_baseline (main.py 169-211) with the Smart agent: one process, one   *)
(* run_simulation after the other, every decision taken by the one         *)
(* instance of baselines.py 104.                                           *)

\* the scenarios of main.py 176-179 that the model carries
BaselineScenarios == {"S-01", "S-02", "S-04", "S-06", "S-08"}

InitBaseline ==
  /\ env = NoEngine
  /\ twin = NoEngine
  /\ obs = None
  /\ agentObs = None
  /\ last = NoStep
  /\ pc = "idle"
  /\ hist = <<>>
  /\ twinObs = None
  /\ twinPc = "new"
  /\ call = None
  /\ result = None
  /\ agent = SmartAgent
  /\ runs = <<>>

\* main.py 190 and 115: run_simulation is entered and constructs its engine
StartRun(sid) ==
  /\ pc = "idle"
  /\ Len(runs) < MaxRuns
  /\ env' \in LaundromatEnv(ScenarioFile(sid))
  /\ obs' = None
  /\ agentObs' = None
  /\ last' = NoStep
  /\ hist' = <<>>
  /\ pc' = "new"
  /\ UNCHANGED <<twin, twinObs, twinPc, call, result, agent, runs>>

\* main.py 134-137 with agent_func = smart_agent_wrapper: the instance
\* decides, and keeps what it noted; the engine steps
SmartDay ==
  /\ pc = "loop"
  /\ Len(hist) <= MaxBaselineDays
  /\ agentObs' = ObservationForAgent(obs)
  /\ \E d \in {smart_agent_wrapper(agent, Val(ObservationForAgent(obs)))} :
       /\ agent' = d.agent
       /\ \E r \in {Step(env, d.action)} :
            /\ env' = r.e
            /\ last' = r.last
            /\ obs' = IF r.last.raised THEN obs ELSE r.obs
            /\ pc' = IF r.last.raised THEN "error" ELSE "loop"
            /\ hist' = Append(hist, [action |-> Some(d.action), obs |-> r.obs])
  /\ UNCHANGED <<twin, twinObs, twinPc, call, result, runs>>

\* main.py 153 and 190-198: the run returns its NBV, or its exception is
\* caught and the result is None
FinishRun ==
  /\ \/ pc = "error"
     \/ pc = "loop" /\ Len(hist) > MaxBaselineDays
  /\ runs' = Append(runs,
                [scenario |-> env.scenario.id,
                 nbv |-> IF pc = "error" THEN None
                         ELSE Some(Val(obs)["_internal_metrics"].nbv)])
  /\ pc' = "idle"
  /\ UNCHANGED <<env, obs, agentObs, last, hist, twin, twinObs, twinPc,
                  call, result, agent>>

NextBaseline ==
  \/ \E sid \in BaselineScenarios : StartRun(sid)
  \/ InitialObservation
  \/ SmartDay
  \/ FinishRun

SpecBaseline == InitBaseline /\ [][NextBaseline]_vars

\* Runs on whatever file the caller names
InitConstruct == InitFrom(ScenarioFiles \cup DamagedFiles)

NextConstruct ==
  \/ InitialObservation
  \/ \E a \in ActionSet : Len(hist) <= MaxConstructDays /\ SimulateDay(a)

SpecConstruct == InitConstruct /\ [][NextConstruct]_vars

----------------------------------------------------------------------------
(* The pure functions, called on their own: a caller picks the arguments,  *)
(* the function returns.                                                   *)

\* no engine is involved in these calls
InitCall(calls) ==
  /\ env = NoEngine
  /\ twin = NoEngine
  /\ obs = None
  /\ agentObs = None
  /\ last = NoStep
  /\ pc = "call"
  /\ hist = <<>>
  /\ twinObs = None
  /\ twinPc = "new"
  /\ call \in {Some(c) : c \in calls}
  /\ result = None
  /\ agent = SmartAgent
  /\ runs = <<>>

\* the call pending is a call of fn
Pending(fn) ==
  /\ pc = "call"
  /\ IsSome(call) /\ Val(call).fn = fn
  /\ result = None

\* every satisfaction value of the range, in 1e-2
StarCalls == {[fn |-> "satisfaction_to_stars", satisfaction |-> s] : s \in 0..SatMax}

CallStars ==
  /\ Pending("satisfaction_to_stars")
  /\ result' = Some(satisfaction_to_stars(Val(call).satisfaction))
  /\ pc' = "returned"
  /\ UNCHANGED <<env, obs, agentObs, last, hist, twin, twinObs, twinPc, call, agent, runs>>

\* states handed to the scorer: cash and debt in cents, up to
\* MaxScoredMachines assets of either type
ScoredHealths == {-400000, 0, 50000, 100000, 500000, HealthOne}

ScoredMachines ==
  UNION {[1..n -> [type : {"washer", "dryer"}, health : ScoredHealths]] :
           n \in 0..MaxScoredMachines}

NbvCalls ==
  {[fn |-> "calculate_net_business_value",
    state |-> [cash |-> c, debt |-> d, machines |-> ms]] :
     c \in {100000, 0, -5000}, d \in {0, 20000}, ms \in ScoredMachines}

CallNbv ==
  /\ Pending("calculate_net_business_value")
  /\ result' = Some(calculate_net_business_value(Val(call).state))
  /\ pc' = "returned"
  /\ UNCHANGED <<env, obs, agentObs, last, hist, twin, twinObs, twinPc, call, agent, runs>>

\* stream states around the two spike thresholds (draws 0.0004 / 0.0005 and
\* 0.0499 / 0.0500) and away from them
DrawStates == {1, 33, 34, 3277, 3278, 40000}

DegradationCalls ==
  {[fn |-> "calculate_degradation", age_cycles |-> a, rng |-> r,
    multiplier |-> m] :
     a \in 0..MaxAge, r \in DrawStates, m \in {1, 4, 8}}

CallDegradation ==
  /\ Pending("calculate_degradation")
  /\ result' = Some(DegradationCall(Val(call).age_cycles, Val(call).rng,
                                    Val(call).multiplier))
  /\ pc' = "returned"
  /\ UNCHANGED <<env, obs, agentObs, last, hist, twin, twinObs, twinPc, call, agent, runs>>

\* demand asked for under every scenario's configuration and under the
\* strict cutoff with its default threshold, at satisfaction values on both
\* sides of 50 and of the thresholds, for every value of the flux
DemandConfigs ==
  {ScenarioConfig(sid) : sid \in ScenarioIds}
    \cup {[DefaultConfig EXCEPT !.gentrification_strict = TRUE]}

DemandCalls ==
  {[fn |-> "calculate_demand", base_demand |-> b,
    pricing |-> [wash |-> w, dry |-> PRICE_DRY], satisfaction |-> sat,
    flux |-> x, config |-> cfg] :
     b \in {50, 35}, w \in {PRICE_WASH, 650},
     sat \in {0, 4900, 4999, 5000, 7999, 8000, 9499, 9500, SatMax},
     x \in -5..5, cfg \in DemandConfigs}

CallDemand ==
  /\ Pending("calculate_demand")
  /\ result' = Some(calculate_demand(Val(call).base_demand, Val(call).pricing,
                                     Val(call).satisfaction, Val(call).flux,
                                     Val(call).config))
  /\ pc' = "returned"
  /\ UNCHANGED <<env, obs, agentObs, last, hist, twin, twinObs, twinPc, call, agent, runs>>

InitPure ==
  InitCall(StarCalls \cup NbvCalls \cup DegradationCalls \cup DemandCalls)

NextPure == CallStars \/ CallNbv \/ CallDegradation \/ CallDemand

SpecPure == InitPure /\ [][NextPure]_vars

----------------------------------------------------------------------------
(* Hidden mechanics (engine.py 366-485); step never calls them *)

\* engine.py 404-415, for the engine e on its current day
apply_regime_shift(e) ==
  LET mech == e.hidden_mechanics
      e1 == IF e.state.day = mech.shift_day
            THEN [e EXCEPT !.state.log_history =
                    Append(@, [tag |-> "NEWS: Economic conditions changing in the area"])]
            ELSE e
  IN IF e.state.day >= mech.shift_day
     THEN [e1 EXCEPT !.utility_cost_mult = mech.phase_2.cost_mult,
                     !.config.base_demand_mult = mech.phase_2.demand_mult]
     ELSE e1

AppendHistory(e, line) == [e EXCEPT !.state.log_history = Append(@, line)]

\* engine.py 392-402: the flagged assets that work degrade once more, each
\* with a call of calculate_degradation on the engine's stream
RECURSIVE LemonLoop(_, _)
LemonLoop(e, i) ==
  IF i > Len(e.state.machines) THEN e
  ELSE LET m == e.state.machines[i]
           mech == e.hidden_mechanics
       IN IF m.id \in mech.lemon_ids /\ m.status = "working"
          THEN CHOOSE r \in
                 {LemonLoop([e EXCEPT !.state.machines[i].health = @ - d.deg,
                                      !.rng = d.rng], i + 1) :
                    d \in {DegradationCall(m.age_cycles, e.rng,
                                           mech.degradation_mult)}} : TRUE
          ELSE LemonLoop(e, i + 1)

apply_lemon_logic(e) == LemonLoop(e, 1)

\* engine.py 417-441
apply_competitor_logic(e) ==
  LET mech == e.hidden_mechanics
      pricing == e.state.pricing
      e1 == IF pricing.wash > 550
            THEN AppendHistory(
                   [e EXCEPT !.competitor_prices =
                      Some([Val(@) EXCEPT !.wash = pricing.wash - mech.undercut_amount])],
                   [tag |-> "RUMOR: Competitor across street changed prices"])
            ELSE IF pricing.wash < 450
            THEN [e EXCEPT !.competitor_prices =
                    Some([Val(@) EXCEPT !.wash = pricing.wash])]
            ELSE e
      e2 == IF pricing.dry > 450
            THEN [e1 EXCEPT !.competitor_prices =
                    Some([Val(@) EXCEPT !.dry = pricing.dry - mech.undercut_amount])]
            ELSE IF pricing.dry < 350
            THEN [e1 EXCEPT !.competitor_prices =
                    Some([Val(@) EXCEPT !.dry = pricing.dry])]
            ELSE e1
  IN IF e.state.day % mech.response_delay = 0
     THEN [e2 EXCEPT !.config.competitor_active =
             Val(e2.competitor_prices).wash < pricing.wash]
     ELSE e

\* engine.py 455-457: every working asset degrades by one more call of
\* calculate_degradation, times the number of broken assets times the load
\* multiplier
RECURSIVE CascadeLoad(_, _, _)
CascadeLoad(e, i, extra_load) ==
  IF i > Len(e.state.machines) THEN e
  ELSE LET m == e.state.machines[i]
       IN IF m.status = "working"
          THEN CHOOSE r \in
                 {CascadeLoad([e EXCEPT !.state.machines[i].health =
                                          @ - d.deg * extra_load,
                                        !.rng = d.rng], i + 1, extra_load) :
                    d \in {DegradationCall(m.age_cycles, e.rng, 1)}} : TRUE
          ELSE CascadeLoad(e, i + 1, extra_load)

\* engine.py 461-471: step j looks at one neighbour of asset (j + 1) \div 2,
\* the one below it for odd j and the one above it for even j
RECURSIVE CascadeSpatial(_, _)
CascadeSpatial(e, j) ==
  IF j > 2 * Len(e.state.machines) THEN e
  ELSE LET broken_id == (j + 1) \div 2
           adj_id == IF j % 2 = 1 THEN broken_id - 1 ELSE broken_id + 1
           hit == /\ e.state.machines[broken_id].status = "broken"
                  /\ adj_id \in 1..Len(e.state.machines)
                  /\ e.state.machines[adj_id].status = "working"
           e1 == [e EXCEPT !.state.machines[adj_id].health =
                             @ - e.hidden_mechanics.spatial_damage,
                           !.rng = RngNext(@)]
           e2 == IF RngUnit(e.rng) < 3000
                 THEN AppendHistory(e1,
                        [tag |-> "Observation: Machine showing signs of wear (near broken Machine)",
                         machine |-> adj_id, near |-> broken_id])
                 ELSE e1
       IN IF hit
          THEN CHOOSE r \in {CascadeSpatial(g, j + 1) : g \in {e2}} : TRUE
          ELSE CascadeSpatial(e, j + 1)

\* engine.py 443-471
apply_cascade_logic(e) ==
  LET broken == {i \in 1..Len(e.state.machines) :
                   e.state.machines[i].status = "broken"}
      extra_load == Cardinality(broken) * e.hidden_mechanics.load_redistribution
  IN IF broken = {} THEN e
     ELSE CHOOSE r \in {CascadeSpatial(g, 1) :
                           g \in {CascadeLoad(e, 1, extra_load)}} : TRUE

\* engine.py 473-485
apply_inspection_logic(e) ==
  LET mech == e.hidden_mechanics
  IN IF e.state.day % mech.interval = 0
     THEN IF e.state.customer_satisfaction < mech.threshold
          THEN AppendHistory(
                 AppendHistory([e EXCEPT !.state.cash = @ - mech.fine],
                               [tag |-> "HEALTH INSPECTION: FAILED - Fine:",
                                fine |-> mech.fine]),
                 [tag |-> "Customers report unsatisfactory conditions"])
          ELSE AppendHistory(e, [tag |-> "HEALTH INSPECTION: PASSED"])
     ELSE e

\* engine.py 366-390
apply_hidden_mechanics(e) ==
  LET mech_type == e.hidden_mechanics.type
  IN IF e.hidden_mechanics = NoMechanic THEN e
     ELSE IF mech_type = "lemon_machines" THEN apply_lemon_logic(e)
     ELSE IF mech_type = "regime_shift" THEN apply_regime_shift(e)
     ELSE IF mech_type = "adaptive_competitor" THEN apply_competitor_logic(e)
     ELSE IF mech_type = "cascading_failures" THEN apply_cascade_logic(e)
     ELSE IF mech_type = "periodic_inspection" THEN apply_inspection_logic(e)
     ELSE e

----------------------------------------------------------------------------
(* _apply_hidden_mechanics called on its own, on an engine some days into   *)
(* a run.                                                                  *)

\* engines the method is called on: a fresh engine of each scenario moved
\* to a day of the run, with the satisfaction and the wash price a run can
\* have brought about
MechanicsCalls ==
  {[fn |-> "_apply_hidden_mechanics",
    e |-> [NewEnv(f.json, r) EXCEPT !.state.day = d,
                                    !.state.customer_satisfaction = sat,
                                    !.state.pricing.wash = w]] :
     f \in ScenarioFiles, r \in DrawStates, d \in 1..MaxMechanicsDay,
     sat \in {SatMax, 9000}, w \in {PRICE_WASH, 600, 400}}

CallMechanics ==
  /\ Pending("_apply_hidden_mechanics")
  /\ result' = Some(apply_hidden_mechanics(Val(call).e))
  /\ pc' = "returned"
  /\ UNCHANGED <<env, obs, agentObs, last, hist, twin, twinObs, twinPc, call, agent, runs>>

InitMechanics == InitCall(MechanicsCalls)

NextMechanics == CallMechanics

SpecMechanics == InitMechanics /\ [][NextMechanics]_vars

----------------------------------------------------------------------------
(* Properties *)

HasLog(logs, tag) == \E k \in 1..Len(logs) : logs[k].tag = tag
HasMachineLog(logs, tag, id) ==
  \E k \in 1..Len(logs) : logs[k].tag = tag /\ logs[k].machine = id

ObservationFields ==
  {"day", "cash", "debt", "inventory", "pricing", "machines", "daily_logs",
   "satisfaction_stars", "agent_memory", "yesterday_stats"}

MachineFields ==
  {"id", "type", "status", "last_maintenance_day", "days_since_maintenance"}

HiddenVariants(e) ==
  { [e EXCEPT !.state.machines =
                 [i \in MachineIds |-> [@[i] EXCEPT !.health = @ + dh,
                                                    !.age_cycles = @ + da]],
              !.state.customer_satisfaction = s] :
      dh \in {0, 1, -7}, da \in {0, 3},
      s \in {x \in {e.state.customer_satisfaction - 1,
                    e.state.customer_satisfaction,
                    e.state.customer_satisfaction + 1} :
               satisfaction_to_stars(x) =
                 satisfaction_to_stars(e.state.customer_satisfaction)} }

NoLeakage ==
  LET o == create_observation(env)
  IN /\ DOMAIN o = ObservationFields
     /\ \A i \in MachineIds : DOMAIN o.machines[i] = MachineFields
     /\ o.satisfaction_stars \in 1..5
     /\ \A e \in HiddenVariants(env) : create_observation(e) = o

NoLeakageWitness ==
  /\ last.stepped
  /\ \E i \in MachineIds : env.state.machines[i].health \notin {0, HealthOne}
  /\ env.state.customer_satisfaction < SatMax
  /\ Cardinality(HiddenVariants(env)) > 6

\* C3: the observation handed to the agent's decision function never
\* carries the internal-metrics block (nbv, true satisfaction).
AgentNeverSeesMetrics ==
  IsSome(agentObs) => "_internal_metrics" \notin DOMAIN Val(agentObs)

\* C4: the health of every asset is within [0,1] in every reachable state.
HealthBound ==
  \A i \in MachineIds :
     /\ env.state.machines[i].health >= 0
     /\ env.state.machines[i].health <= HealthOne

\* C5: in every state between steps an asset is broken if and only if its
\* health is <= 0, also after a cheap repair of an asset of negative health.
BrokenIffDead ==
  \A i \in MachineIds :
     env.state.machines[i].status = "broken"
       <=> env.state.machines[i].health <= 0

BrokenIffDeadWitness ==
  /\ last.stepped
  /\ \E k \in 1..Len(last.maintApplied) :
        LET id == last.maintApplied[k].op.machine_id
        IN /\ last.maintApplied[k].op.action = "repair_cheap"
           /\ Val(last.before).machines[id].health < 0
           /\ HasMachineLog(last.logs, "MAINT: cheap repair completed", id)
           /\ HasMachineLog(last.logs, "CRITICAL: Machine has stopped working", id)
           /\ env.state.machines[id].status = "broken"

DocumentedCost(entry, cfg) ==
  CASE entry.op.action = "repair_cheap" ->
         (COST_REPAIR_CHEAP * cfg.repair_cost_mult) \div 1000
    [] entry.op.action = "repair_premium" ->
         (COST_REPAIR_PREMIUM * cfg.repair_cost_mult) \div 1000
    [] entry.op.action = "replace" ->
         IF entry.type = "washer" THEN COST_WASHER ELSE COST_DRYER
    [] OTHER -> 0

RECURSIVE SumCharged(_, _)
SumCharged(entries, k) ==
  IF k > Len(entries) THEN 0
  ELSE entries[k].charged + SumCharged(entries, k + 1)

ExistingOps(ops) == {k \in 1..Len(ops) : ops[k].machine_id \in MachineIds}

CostChargedOnce ==
  last.stepped =>
    /\ Len(last.maintApplied)
         = Cardinality(ExistingOps(Val(last.action).maintenance_ops))
    /\ \A k \in 1..Len(last.maintApplied) :
          last.maintApplied[k].charged
            = DocumentedCost(last.maintApplied[k], env.config)
    /\ last.cashBeforeMaint - last.cashAfterMaint
         = SumCharged(last.maintApplied, 1)

CostChargedOnceWitness ==
  /\ last.stepped
  /\ HasLog(last.logs, "MAINT: cheap repair FAILED")
  /\ HasLog(last.logs, "MAINT: cheap repair completed")
  /\ last.cashBeforeMaint - last.cashAfterMaint
       = NumMachines * ((COST_REPAIR_CHEAP * env.config.repair_cost_mult) \div 1000)

\* C8: after a step no pending order is left whose arrival day is <= the
\* day the step ran on (it has been delivered and removed).
PendingDelivered ==
  last.stepped =>
    \A k \in 1..Len(env.pending_orders) : env.pending_orders[k][1] > last.day

\* C9: a call of step makes the pending list grow by exactly the number of
\* items requested in buy_inventory.
OneOrderPerItem ==
  (last.stepped \/ last.raised) =>
    Len(env.pending_orders)
      = Len(last.pendingBefore) + Len(Val(last.action).buy_inventory)

\* C10: every step applies the scenario's hidden mechanic; for the
\* regime-shift variant, a step run on or after the shift day leaves the
\* utility-cost and base-demand multipliers at their phase-2 values.
MechanicApplied ==
  (last.stepped /\ env.hidden_mechanics.type = "regime_shift") =>
    LET applied == apply_regime_shift([env EXCEPT !.state.day = last.day])
    IN /\ env.utility_cost_mult = applied.utility_cost_mult
       /\ env.config.base_demand_mult = applied.config.base_demand_mult

\* C11: under the repair-fraud mechanic the outcome of every cheap repair is
\* decided by the mechanic's failure rate on the draw taken for it, and the
\* scenario config's grifter flag plays no part: with the flag absent the
\* repair still fails on a draw below that rate.
CheapRepairFails(e, id) ==
  LET f == RepairCheap(NewFrame(e, IdleAction), e.state.machines[id])
  IN HasMachineLog(f.logs, "MAINT: cheap repair FAILED", id)

RepairFraudGoverns ==
  env.hidden_mechanics.type = "repair_fraud" =>
    /\ last.stepped =>
         \A k \in 1..Len(last.maintApplied) :
            last.maintApplied[k].op.action = "repair_cheap" =>
              (last.maintApplied[k].failed
                 <=> last.maintApplied[k].u < env.hidden_mechanics.failure_rate)
    /\ \A id \in MachineIds :
         CheapRepairFails([env EXCEPT !.config.grifter_repairs = FALSE], id)
           <=> RngUnit(env.rng) < env.hidden_mechanics.failure_rate

\* C12: a call of step with the empty action (every field of AgentAction at
\* its default) completes without raising, makes no payment, purchase,
\* inspection or maintenance, and returns the observation of the next day.
SubActionTags ==
  {"FINANCE: Paid", "FINANCE: Transaction Declined", "ORDER: Bought",
   "INSPECT: Machine", "INSPECT: Insufficient funds",
   "ERROR: Machine not found", "MAINT: cheap repair completed",
   "MAINT: cheap repair FAILED", "MAINT: premium repair fully restored",
   "MAINT: replaced brand new"}

EmptyActionValid ==
  last.action = Some(DefaultAction) =>
    /\ ~last.raised
    /\ last.stepped
    /\ env.state.day = last.day + 1
    /\ pc = "loop"
    /\ IsSome(obs) /\ Val(obs).day = last.day + 1
    /\ env.pending_orders = last.pendingBefore
    /\ last.maintApplied = <<>>
    /\ last.cashBeforeMaint = Val(last.before).cash
    /\ \A k \in 1..Len(last.logs) : last.logs[k].tag \notin SubActionTags

\* C13: the payment sub-step, for pay_debt > 0: with cash >= pay_debt it
\* takes pay_debt from cash and leaves debt at max(0, debt - pay_debt) and
\* logs the payment; otherwise it logs the decline and leaves cash and debt
\* alone; for pay_debt <= 0 it does nothing.  Debt is never negative.
DebtPayment ==
  /\ env.state.debt >= 0
  /\ (last.stepped \/ last.raised) =>
       LET a == Val(last.action)
           b == Val(last.before)
           ad == last.afterDebt
       IN IF a.pay_debt > 0 /\ b.cash >= a.pay_debt
          THEN /\ ad.cash = b.cash - a.pay_debt
               /\ ad.debt = Max(0, b.debt - a.pay_debt)
               /\ ad.debt >= 0
               /\ ad.logs = <<[tag |-> "FINANCE: Paid", amount |-> a.pay_debt]>>
          ELSE /\ ad.cash = b.cash
               /\ ad.debt = b.debt
               /\ ad.logs = IF a.pay_debt > 0
                            THEN <<[tag |-> "FINANCE: Transaction Declined"]>>
                            ELSE <<>>

DebtPaymentWitness ==
  /\ last.stepped
  /\ Val(last.action).pay_debt > Val(last.before).debt
  /\ Val(last.before).cash >= Val(last.action).pay_debt
  /\ last.afterDebt.debt = 0
  /\ last.afterDebt.cash < Val(last.before).cash
  /\ \E k \in 2..Len(hist) :
        /\ Val(hist[k].action).pay_debt > 0
        /\ IsSome(hist[k].obs)
        /\ Val(hist[k].obs).daily_logs[1].tag = "FINANCE: Transaction Declined"

\* C14: a maintenance operation or an inspection request that names an
\* asset id that does not exist changes nothing in the engine, takes no
\* cash and adds no log line.
UnknownAssetSilent ==
  last.stepped =>
    /\ \A k \in 1..Len(last.maintSkipped) :
          /\ last.maintSkipped[k].same
          /\ last.maintSkipped[k].charged = 0
          /\ last.maintSkipped[k].logged = <<>>
    /\ \A k \in 1..Len(last.inspApplied) :
          last.inspApplied[k].machine_id \notin MachineIds =>
            /\ last.inspApplied[k].restSame
            /\ last.inspApplied[k].charged = 0
            /\ last.inspApplied[k].logged = <<>>

\* C14 (amended): a request naming an asset id that does not exist changes
\* nothing in the engine and takes no cash; a maintenance operation adds no
\* log line, an inspection request adds exactly the line "ERROR: Machine
\* <id> not found".
UnknownAssetNoEffect ==
  last.stepped =>
    /\ \A k \in 1..Len(last.maintSkipped) :
          /\ last.maintSkipped[k].same
          /\ last.maintSkipped[k].charged = 0
          /\ last.maintSkipped[k].logged = <<>>
    /\ \A k \in 1..Len(last.inspApplied) :
          last.inspApplied[k].machine_id \notin MachineIds =>
            /\ last.inspApplied[k].restSame
            /\ last.inspApplied[k].charged = 0
            /\ last.inspApplied[k].logged
                 = <<[tag |-> "ERROR: Machine not found",
                      machine |-> last.inspApplied[k].machine_id]>>

UnknownAssetWitness ==
  /\ last.stepped
  /\ \E k \in 1..Len(last.inspApplied) :
        last.inspApplied[k].machine_id \notin MachineIds
  /\ HasLog(Val(obs).daily_logs, "ERROR: Machine not found")
  /\ \E k \in 2..Len(hist) :
        /\ IsSome(hist[k].obs)
        /\ \E j \in 1..Len(Val(hist[k].action).maintenance_ops) :
              Val(hist[k].action).maintenance_ops[j].machine_id \notin MachineIds

\* C15: an inspection request for an existing asset, with cash below the
\* fee, adds the insufficient-funds line and changes nothing; with cash at
\* or above the fee it takes exactly the fee, adds the report line of that
\* asset and changes nothing else (no health, age_cycles or status).
InspectionFee ==
  last.stepped =>
    \A k \in 1..Len(last.inspApplied) :
       LET r == last.inspApplied[k]
       IN r.machine_id \in MachineIds =>
            /\ r.restSame
            /\ Len(r.logged) = 1
            /\ IF r.cashBefore >= INSPECTION_COST
               THEN /\ r.charged = INSPECTION_COST
                    /\ r.logged[1].tag = "INSPECT: Machine"
                    /\ r.logged[1].machine = r.machine_id
               ELSE /\ r.charged = 0
                    /\ r.logged[1].tag = "INSPECT: Insufficient funds"

InspectionFeeWitness ==
  /\ last.stepped
  /\ \E k \in 1..Len(last.inspApplied) :
        /\ last.inspApplied[k].machine_id \in MachineIds
        /\ last.inspApplied[k].cashBefore < INSPECTION_COST
        /\ last.inspApplied[k].charged = 0
  /\ HasLog(env.state.log_history, "INSPECT: Insufficient funds")

\* C16: construction fails closed: an engine exists only if the file was
\* there, parsed, and carried every field of the descriptor (id, seed,
\* config_overrides, event_tape); no default stands in for a missing field.
FailsClosed ==
  pc # "failed" =>
    /\ DescriptorKeys \subseteq DOMAIN env.scenario
    /\ env.event_tape = env.scenario.event_tape

\* C17: for every satisfaction s in [0,100] the star rating is 5 for
\* s >= 90, 4 for 75 <= s < 90, 3 for 55 <= s < 75, 2 for 35 <= s < 55 and
\* 1 below 35; 92 gives 5, 54 gives 2, 35 gives 2, 34 gives 1; the rating
\* is in 1..5.
StarBand(s, lo, hi, stars) ==
  (lo * 100 <= s /\ s < hi * 100) => stars

StarMapping ==
  (IsSome(result) /\ Val(call).fn = "satisfaction_to_stars") =>
    LET s == Val(call).satisfaction
        r == Val(result)
    IN /\ r \in 1..5
       /\ StarBand(s, 90, 101, r = 5)
       /\ StarBand(s, 75, 90, r = 4)
       /\ StarBand(s, 55, 75, r = 3)
       /\ StarBand(s, 35, 55, r = 2)
       /\ StarBand(s, 0, 35, r = 1)
       /\ (s = 9200 => r = 5) /\ (s = 5400 => r = 2)
       /\ (s = 3500 => r = 2) /\ (s = 3400 => r = 1)

StarMappingWitness ==
  /\ IsSome(result)
  /\ Val(call).fn = "satisfaction_to_stars"
  /\ Val(call).satisfaction = 3500
  /\ Val(result) = 2

\* C18: calculate_net_business_value returns cash plus, over the assets,
\* max(0.1, health) times the base cost (800 washer, 600 dryer), minus
\* debt, to 2 decimals; cash 1000, debt 200, a washer at health 0.5 and a
\* dryer at health 0 give 1260.
ScoredValue(m) ==
  LET dollars == IF m.type = "washer" THEN 800 ELSE 600
  IN IF m.health * 10 <= HealthOne THEN dollars * 10
     ELSE (dollars * m.health) \div 10000

RECURSIVE ScoredSum(_)
ScoredSum(ms) ==
  IF ms = <<>> THEN 0 ELSE ScoredValue(Head(ms)) + ScoredSum(Tail(ms))

NbvExample ==
  [cash |-> 100000, debt |-> 20000,
   machines |-> <<[type |-> "washer", health |-> 500000],
                  [type |-> "dryer", health |-> 0]>>]

NbvFormula ==
  (IsSome(result) /\ Val(call).fn = "calculate_net_business_value") =>
    LET st == Val(call).state
    IN /\ Val(result) = st.cash + ScoredSum(st.machines) - st.debt
       /\ st = NbvExample => Val(result) = 126000

NbvFormulaWitness ==
  /\ IsSome(result)
  /\ Val(call).fn = "calculate_net_business_value"
  /\ Val(call).state = NbvExample
  /\ Val(result) = 126000

\* C19: calculate_degradation, for age_cycles > 2000, draws nothing and
\* returns 0.001 x (1 + ((age - 2000)/1000)^2) x multiplier (0.00125 at age
\* 2500, multiplier 1); for age < 100 it draws once and returns 0.05 x
\* multiplier on a spike and 0.001 x multiplier otherwise; for
\* 100 <= age <= 2000 it draws once and returns 0.10 x multiplier on a
\* spike and 0.001 x multiplier otherwise.
DegradationModel ==
  (IsSome(result) /\ Val(call).fn = "calculate_degradation") =>
    LET c == Val(call)
        r == Val(result)
        age == c.age_cycles
        over == age - 2000
    IN /\ age > 2000 =>
            /\ r.rng = c.rng
            /\ r.deg * 1000 = (1000000 + over * over) * c.multiplier
                                - ((over * over) % 1000) * c.multiplier
       /\ (age = 2500 /\ c.multiplier = 1) => r.deg = 1250
       /\ age < 100 =>
            /\ r.rng = RngNext(c.rng)
            /\ r.deg \in {50000 * c.multiplier, 1000 * c.multiplier}
            /\ r.deg = 50000 * c.multiplier <=> RngUnit(c.rng) < 500
       /\ (age >= 100 /\ age <= 2000) =>
            /\ r.rng = RngNext(c.rng)
            /\ r.deg \in {100000 * c.multiplier, 1000 * c.multiplier}
            /\ r.deg = 100000 * c.multiplier <=> RngUnit(c.rng) < 5

DegradationModelWitness ==
  /\ IsSome(result)
  /\ Val(call).fn = "calculate_degradation"
  /\ Val(call).age_cycles = 2500
  /\ Val(call).multiplier = 1
  /\ Val(result).deg = 1250
  /\ Val(result).rng = Val(call).rng

\* C20: in every step with enough soap for the loads, washes served =
\* min(demand, working washers x max cycles) and dries served =
\* min(washes served, working dryers x max cycles), with max cycles 10, or
\* 5 under water rationing; so dries <= washes <= demand and neither
\* exceeds the capacity of its category.
Capacity(s, type) ==
  Cardinality({i \in MachineIds : /\ s.machines[i].type = type
                                  /\ s.machines[i].status = "working"})
    * (IF s.config.water_rationing THEN 5 ELSE 10)

ThroughputRule ==
  (last.stepped /\ ~last.soap_short) =>
    LET s == Val(last.atService)
        cw == Capacity(s, "washer")
        cd == Capacity(s, "dryer")
    IN /\ last.actual_washes = Min(last.demand, cw)
       /\ last.actual_dries = Min(last.actual_washes, cd)
       /\ last.actual_dries <= last.actual_washes
       /\ last.actual_washes <= last.demand
       /\ last.actual_washes <= cw /\ last.actual_dries <= cd
       /\ s.soap * LoadsPerSoap >= last.actual_washes
       /\ env.yesterday_customers = last.actual_washes

ThroughputRuleWitness ==
  /\ last.stepped /\ ~last.soap_short
  /\ Val(last.atService).config.water_rationing
  /\ last.demand > last.actual_washes
  /\ last.actual_washes > last.actual_dries
  /\ last.actual_dries > 0

\* C21: in every step, washes served plus customers turned away equals the
\* day's demand, also when soap runs short while capacity binds; after a
\* soap shortfall the soap inventory is 0; the figures reported for
\* yesterday are those of the step.
LostIsUnmetDemand ==
  last.stepped =>
    /\ last.actual_washes + last.lost_customers = last.demand
    /\ last.soap_short => env.state.inventory.soap = 0
    /\ env.yesterday_customers = last.actual_washes
    /\ env.yesterday_turnaway = last.lost_customers

\* C22: every observation carries at most 10 log lines, and they are the
\* last lines of the step that produced it: the log buffer holds that
\* step's lines only, nothing of earlier days.
RecentLogsOnly ==
  /\ IsSome(obs) => Len(Val(obs).daily_logs) <= 10
  /\ last.stepped =>
       LET shown == Val(obs).daily_logs
           n == Len(last.logs)
       IN /\ env.state.log_history = last.logs
          /\ Len(shown) = Min(10, n)
          /\ \A k \in 1..Len(shown) : shown[k] = last.logs[n - Len(shown) + k]

RecentLogsOnlyWitness ==
  /\ last.stepped
  /\ Len(last.logs) > 10
  /\ Len(Val(obs).daily_logs) = 10
  /\ Val(obs).daily_logs[1] # last.logs[1]
  /\ Len(hist) >= 3
  /\ Val(hist[Len(hist) - 1].obs).daily_logs # <<>>

\* C23: a pricing change, memory update or marketing budget carried by the
\* action overwrites its state field whatever the value: agent_memory is
\* the supplied string (the empty string too), marketing_spend the supplied
\* budget (0 too), each supplied price replaces the stored one; a field the
\* action does not carry leaves the state as it was.
ConfigOverwrite ==
  (last.stepped \/ last.raised) =>
    LET a == Val(last.action)
        b == Val(last.before)
    IN /\ env.state.agent_memory
            = IF IsSome(a.update_memory) THEN Val(a.update_memory)
              ELSE b.agent_memory
       /\ env.state.marketing_spend
            = IF IsSome(a.marketing_change) THEN Val(a.marketing_change)
              ELSE b.marketing_spend
       /\ \A k \in DOMAIN env.state.pricing :
            env.state.pricing[k]
              = IF k \in DOMAIN a.pricing_change THEN a.pricing_change[k]
                ELSE b.pricing[k]

\* C24: a successful inspection does not give the exact health away: for
\* every inspection line of a step, the asset's health being a whole number
\* of degradation steps (0.001), some other whole number of steps between 0
\* and 1 would have produced the same band and the same remaining-life
\* estimate, so the line leaves the health open.
HealthGrid == {k * 1000 : k \in 0..(HealthOne \div 1000)}

InspectionHidesHealth ==
  last.stepped =>
    \A i \in 1..Len(last.inspApplied) :
      LET x == last.inspApplied[i]
      IN (x.logged # <<>> /\ x.logged[1].tag = "INSPECT: Machine") =>
           LET m == Val(last.before).machines[x.machine_id]
               line == x.logged[1]
           IN m.health \in HealthGrid =>
                \E h \in HealthGrid \ {m.health} :
                  LET r == InspectionReport(h, m.age_cycles)
                  IN /\ r.condition = line.condition
                     /\ r.remaining_low = line.remaining_low
                     /\ r.remaining_high = line.remaining_high

\* C25: no log line that a hidden-mechanic variant appends carries the value
\* of one of the mechanic's parameters (threshold, fine, interval, shift
\* day, multipliers, undercut; the flagged ids where the line names an
\* asset) or the name of the mechanic.
ParameterValues(mech) ==
  CASE mech.type = "lemon_machines" -> {mech.degradation_mult}
    [] mech.type = "regime_shift" ->
         {mech.shift_day, mech.phase_2.cost_mult, mech.phase_2.demand_mult}
    [] mech.type = "adaptive_competitor" ->
         {mech.response_delay, mech.undercut_amount}
    [] mech.type = "cascading_failures" ->
         {mech.load_redistribution, mech.spatial_damage}
    [] mech.type = "periodic_inspection" ->
         {mech.interval, mech.threshold, mech.fine}
    [] mech.type = "repair_fraud" -> {mech.failure_rate}
    [] OTHER -> {}

FlaggedIds(mech) ==
  IF mech.type = "lemon_machines" THEN mech.lemon_ids ELSE {}

MechanicLines ==
  LET before == Val(call).e.state.log_history
      after == Val(result).state.log_history
  IN SubSeq(after, Len(before) + 1, Len(after))

MechanicsHidden ==
  (pc = "returned" /\ Val(call).fn = "_apply_hidden_mechanics") =>
    LET mech == Val(call).e.hidden_mechanics
    IN \A k \in 1..Len(MechanicLines) :
         LET line == MechanicLines[k]
         IN /\ line.tag # mech.type
            /\ \A field \in DOMAIN line \ {"tag"} :
                 IF field \in {"machine", "near"}
                 THEN line[field] \notin FlaggedIds(mech)
                 ELSE line[field] \notin ParameterValues(mech)

\* C26: under the strict demand cutoff, calculate_demand returns 0 for
\* every satisfaction below the configured threshold (80 by default), a
\* satisfaction below 50 included.
StrictCutoff ==
  (pc = "returned" /\ Val(call).fn = "calculate_demand") =>
    LET c == Val(call)
    IN (c.config.gentrification_strict
          /\ c.satisfaction < c.config.satisfaction_threshold)
         => Val(result) = 0

\* C27: every event string of a generated tape holds one phrase of the
\* engine's vocabulary, and the step of its day has the documented effect:
\* after the step of a day with an S-01-Hard rent event the rent multiplier
\* is 1.10 times the scenario's.
Vocabulary ==
  {<<"Rent", "Hike">>, <<"FACTORY", "RECALL">>, <<"Competitor">>,
   <<"Health", "Inspector">>, <<"Loan", "Shark">>, <<"Power", "Outage">>,
   <<"Scammer">>, <<"Theft">>}

InVocabulary(ev) == \E phrase \in Vocabulary : Contains(phrase, ev)

TapeMatchesVocabulary ==
  (last.stepped /\ last.day \in DOMAIN env.event_tape) =>
    /\ \A k \in 1..Len(env.event_tape[last.day]) :
         InVocabulary(env.event_tape[last.day][k])
    /\ env.scenario.id = "S-01-Hard" =>
         env.config.rent_mult
           = (env.scenario.config_overrides.rent_mult * 11) \div 10

\* C28: on a day whose tape holds a factory-recall event every asset is
\* broken with health 0 at the end of the step, whatever maintenance the
\* action asked for (the events come after the maintenance), and no wash
\* and no dry is served that day: all of the demand is lost.
RecallToday ==
  /\ last.stepped
  /\ last.day \in DOMAIN env.event_tape
  /\ \E k \in 1..Len(env.event_tape[last.day]) :
       Contains(<<"FACTORY", "RECALL">>, env.event_tape[last.day][k])

FactoryRecall ==
  RecallToday =>
    /\ \A i \in 1..Len(env.state.machines) :
         /\ env.state.machines[i].status = "broken"
         /\ env.state.machines[i].health = 0
    /\ last.actual_washes = 0
    /\ last.actual_dries = 0
    /\ last.lost_customers = last.demand

FactoryRecallWitness ==
  /\ RecallToday
  /\ last.demand > 0
  /\ \E k \in 1..Len(last.maintApplied) :
       /\ last.maintApplied[k].charged > 0
       /\ ~last.maintApplied[k].failed
       /\ last.maintApplied[k].op.action \in {"repair_premium", "replace"}

\* C29: a step leaves health, age_cycles and status of an asset that was
\* broken before it as they were, unless the action holds a maintenance
\* operation for the asset or a factory recall fires that day; the working
\* counts that give the capacity and the per-asset split of the cycles
\* count the working assets only.
HasOpFor(a, i) ==
  \E k \in 1..Len(a.maintenance_ops) : a.maintenance_ops[k].machine_id = i

LeftBroken(i) ==
  /\ last.stepped
  /\ Val(last.before).machines[i].status = "broken"
  /\ ~HasOpFor(Val(last.action), i)
  /\ ~RecallToday

WorkingOf(machines, type) ==
  Cardinality({i \in 1..Len(machines) :
                 machines[i].type = type /\ machines[i].status = "working"})

BrokenFrame ==
  /\ \A i \in MachineIds :
       LeftBroken(i) =>
         /\ env.state.machines[i].health = Val(last.before).machines[i].health
         /\ env.state.machines[i].age_cycles
              = Val(last.before).machines[i].age_cycles
         /\ env.state.machines[i].status = "broken"
  /\ last.stepped =>
       /\ last.working_washers = WorkingOf(Val(last.atService).machines, "washer")
       /\ last.working_dryers = WorkingOf(Val(last.atService).machines, "dryer")

BrokenFrameWitness ==
  /\ \E i \in MachineIds : LeftBroken(i) /\ i <= NumWashers
  /\ \E i \in MachineIds : LeftBroken(i) /\ i > NumWashers
  /\ last.actual_washes >= last.working_washers
  /\ last.working_washers > 0
  /\ last.actual_dries >= last.working_dryers
  /\ last.working_dryers > 0

\* C30: every run of run_simulation starts from a fresh agent: when the
\* loop of a run is entered the Smart agent is in the state of a newly made
\* SmartAgent, whatever ran before in the process, and the first action of
\* the run is the one a newly made agent returns on the run's first
\* observation.
FreshAgentPerRun ==
  /\ (pc = "loop" /\ Len(hist) = 1) => agent = SmartAgent
  /\ (pc \in {"loop", "error"} /\ Len(hist) >= 2) =>
       hist[2].action = Some(act(SmartAgent, Val(hist[1].obs)).action)

====
